---------------------------- MODULE Spec2Model ----------------------------
(***************************************************************************)
(* Gold trading bot: the indicator engine (indicators.py), the signal      *)
(* generator (signal_generator.py) and the session data of trading_bot.py, *)
(* over a frame of OHLCV bars.                                             *)
(*                                                                         *)
(* Numbers.  The code computes in IEEE doubles, and so does the model: the *)
(* second section computes binary64 exactly, every operation rounded to    *)
(* the nearest double, and the indicators, the judgments, the scores and   *)
(* the risk figures are made of the operations the code makes, in its      *)
(* order: the EMA by the recursion of pandas, the rolling means by their   *)
(* compensated sums, round(x, 2) by the three steps of numpy.  A price of  *)
(* a bar is given as a decimal, in units of 1/PriceUnit dollar, and is the *)
(* double nearest to that decimal, as a price read from a feed is.         *)
(*                                                                         *)
(* Every record holds the doubles of its numbers in its field `floats`     *)
(* and, beside them, the same numbers kept as integers: prices, EMAs, ATR  *)
(* and price levels in units of 1/PriceUnit, strengths, RSI and            *)
(* percentages in units of 1/Milli, scores and the confidence in units of  *)
(* 1/ScoreUnit.  A kept number that ends in 0 or 5 stands for the double   *)
(* of that very decimal: a double that lies beside such a decimal, however *)
(* close, is kept one unit above or below it, and any other double is cut  *)
(* to whole units (Keep).  NaN is the one undefined value of a kept        *)
(* number: every comparison with it is false.  Nothing is computed from a  *)
(* kept number; the code's tests and sums are made of the doubles.         *)
(***************************************************************************)
EXTENDS Integers, Sequences, FiniteSets

VARIABLES
    bars,        \* the frame's rows: the bar series handed to generate_signal
    cols,        \* the frame's columns
    now,         \* the wall clock read by pd.Timestamp.now()
    result,      \* the record the last generate_signal call returned
    prev,        \* the record the call before it returned, on the same frame
    console,     \* the last line calculate_all_indicators printed
    runs,        \* how many runs of bars the market has delivered
    judgments,   \* inputs of the composer under test: ema, rsi, volume, trend
    composite,   \* _calculate_composite_signal's result for them
    advice,      \* _generate_recommendation's result for it
    riskIn,      \* inputs of _calculate_risk_levels under test
    riskOut,     \* its result
    span,        \* the period passed to an indicator under test
    emaOut,      \* the series calculate_ema returned for the frame's closes
    rsiOut,      \* the series calculate_rsi returned for them
    atrOut,      \* the series calculate_atr returned for the frame
    drift,       \* the moves of a monotone scenario, bar after bar
    sawBullish,  \* a BULLISH crossover was reported as the bars arrived
    sawBuy,      \* a BUY composite was returned as the bars arrived
    volumeIn,    \* a volume series under test
    volumeOut,   \* the volume judgment made of it
    snapshot,    \* an indicator snapshot given to the four analyzers
    analysis,    \* their judgments, the composite and the recommendation
    floatIn,     \* prices and ATR as binary64 values, under test
    floatOut,    \* the levels computed from them in binary64 arithmetic
    session,     \* GoldTradingBot.session_data
    returned,    \* what each run_single_analysis call returned, in order
    feed         \* the request of the last call and the frame fetched for it

seriesVars == <<span, emaOut, rsiOut, atrOut>>
scenarioVars == <<drift, sawBullish, sawBuy>>
volumeVars == <<volumeIn, volumeOut>>
snapshotVars == <<snapshot, analysis>>
floatVars == <<floatIn, floatOut>>
sessionVars == <<session, returned, feed>>

vars == <<bars, cols, now, result, prev, console, runs,
          judgments, composite, advice, riskIn, riskOut,
          seriesVars, scenarioVars, volumeVars,
          snapshotVars, floatVars, sessionVars>>

-----------------------------------------------------------------------------
(* Number representation *)

PriceUnit == 10000
Milli == 1000
ScoreUnit == 10000
NaN == -999999999
None == [signal |-> "NONE"]

IsNum(x) == x # NaN
Abs(x) == IF x < 0 THEN -x ELSE x
Min(a, b) == IF a < b THEN a ELSE b
Max(a, b) == IF a > b THEN a ELSE b

FSub(a, b) == IF a = NaN \/ b = NaN THEN NaN ELSE a - b
FLt(a, b) == a # NaN /\ b # NaN /\ a < b
FLe(a, b) == a # NaN /\ b # NaN /\ a <= b
FGt(a, b) == a # NaN /\ b # NaN /\ a > b
FGe(a, b) == a # NaN /\ b # NaN /\ a >= b

\* A quotient that does not come out even is cut to whole units, and the
\* float it stands for lies strictly between the cut and the next unit.  A
\* cut ending in 0 or 5 is the very decimal a threshold or the half of a
\* printed digit can be, and the float is above it: the quotient is then
\* taken one unit up, so that a comparison or a rounding made of it later
\* falls on the side the float is on.
Cut(q, r) == IF r # 0 /\ q % 5 = 0 THEN q + 1 ELSE q

\* a * 10^k / c for a >= 0, c > 0, by long division, so that no
\* intermediate product leaves TLC's 32-bit integers
RECURSIVE LongDigits(_, _, _, _)
LongDigits(q, r, c, k) ==
    IF k = 0 THEN [q |-> q, r |-> r]
    ELSE LongDigits(10 * q + (10 * r) \div c, (10 * r) % c, c, k - 1)
LongDiv(q, r, c, k) == Cut(LongDigits(q, r, c, k).q, LongDigits(q, r, c, k).r)

DivScaled(a, c, k) == LongDiv(a \div c, a % c, c, k)

-----------------------------------------------------------------------------
(* Python floats (IEEE 754 binary64) computed exactly.  A float >= 0 is
   zero or (hi * 2^27 + lo) * 2^e with a mantissa of exactly 53 binary
   digits, held in two parts so that every step stays within TLC's
   integers: 2^25 <= hi < 2^26 and 0 <= lo < 2^27.  Each operation gives
   the float nearest to the exact result, ties to even.  Natural numbers of
   any size (sequences of limbs, lowest first) serve the decimals. *)

LimbBits == 13
LimbBase == 2 ^ LimbBits
MantissaBits == 53

Zeros(n) == [i \in 1..n |-> 0]
Limb(a, i) == IF i <= Len(a) THEN a[i] ELSE 0

RECURSIVE BigTrim(_)
BigTrim(a) ==
    IF Len(a) > 0 /\ a[Len(a)] = 0 THEN BigTrim(SubSeq(a, 1, Len(a) - 1))
    ELSE a

RECURSIVE BigFromInt(_)
BigFromInt(n) ==
    IF n = 0 THEN <<>>
    ELSE <<n % LimbBase>> \o BigFromInt(n \div LimbBase)

RECURSIVE BigAddFrom(_, _, _, _)
BigAddFrom(a, b, i, carry) ==
    IF i > Len(a) /\ i > Len(b)
    THEN IF carry = 0 THEN <<>> ELSE <<carry>>
    ELSE LET t == Limb(a, i) + Limb(b, i) + carry
         IN  <<t % LimbBase>> \o BigAddFrom(a, b, i + 1, t \div LimbBase)
BigAdd(a, b) == BigTrim(BigAddFrom(a, b, 1, 0))

\* -1, 0 or 1 as a is below, equal to or above b
RECURSIVE BigCmpFrom(_, _, _)
BigCmpFrom(a, b, i) ==
    IF i = 0 THEN 0
    ELSE IF a[i] < b[i] THEN -1
    ELSE IF a[i] > b[i] THEN 1
    ELSE BigCmpFrom(a, b, i - 1)
BigCmp(a, b) ==
    IF Len(a) < Len(b) THEN -1
    ELSE IF Len(a) > Len(b) THEN 1
    ELSE BigCmpFrom(a, b, Len(a))

\* a * k for 0 <= k <= LimbBase
RECURSIVE BigMulSmallFrom(_, _, _, _)
BigMulSmallFrom(a, k, i, carry) ==
    IF i > Len(a) THEN IF carry = 0 THEN <<>> ELSE <<carry>>
    ELSE LET t == a[i] * k + carry
         IN  <<t % LimbBase>> \o BigMulSmallFrom(a, k, i + 1, t \div LimbBase)
BigMulSmall(a, k) == BigTrim(BigMulSmallFrom(a, k, 1, 0))

RECURSIVE BigMulFrom(_, _, _)
BigMulFrom(a, b, i) ==
    IF i > Len(b) THEN <<>>
    ELSE BigAdd(Zeros(i - 1) \o BigMulSmall(a, b[i]), BigMulFrom(a, b, i + 1))
BigMul(a, b) == BigTrim(BigMulFrom(a, b, 1))

\* a * 2^n
BigShl(a, n) ==
    IF Len(a) = 0 THEN <<>>
    ELSE Zeros(n \div LimbBits) \o BigMulSmall(a, 2 ^ (n % LimbBits))

\* the two parts of a mantissa, and the width in which sums and quotients
\* are formed before they are rounded
LoBits == 27
LoBase == 2 ^ LoBits
HiBase == 2 ^ (MantissaBits - LoBits)
WideBits == 30
WideBase == 2 ^ WideBits

DZero == [hi |-> 0, lo |-> 0, e |-> 0]
DIsZero(x) == x.hi = 0

\* the number of binary digits of x
RECURSIVE BitsOf(_)
BitsOf(x) ==
    IF x = 0 THEN 0
    ELSE IF x >= 65536 THEN 16 + BitsOf(x \div 65536)
    ELSE IF x >= 256 THEN 8 + BitsOf(x \div 256)
    ELSE IF x >= 16 THEN 4 + BitsOf(x \div 16)
    ELSE IF x >= 4 THEN 2 + BitsOf(x \div 4)
    ELSE IF x >= 2 THEN 2 ELSE 1

\* `width` binary digits of h * 2^30 + l, from the digit `from` upwards
Field(h, l, from, width) ==
    IF from >= WideBits THEN (h \div 2 ^ (from - WideBits)) % 2 ^ width
    ELSE ((l \div 2 ^ from)
              + (h % 2 ^ Max(0, from + width - WideBits)) * 2 ^ (WideBits - from))
             % 2 ^ width

\* the float nearest to (h * 2^30 + l) * 2^e, ties to even: the digits
\* beyond the 53rd are dropped, the rest compared with a half (and `rest`,
\* which says that more was dropped before) decides the last digit, and a
\* carry out of the 53 digits moves the exponent
DCarry(hi, lo, e) ==
    IF lo < LoBase THEN [hi |-> hi, lo |-> lo, e |-> e]
    ELSE IF hi + 1 < HiBase THEN [hi |-> hi + 1, lo |-> 0, e |-> e]
    ELSE [hi |-> HiBase \div 2, lo |-> 0, e |-> e + 1]
DRoundUp(hi, lo, c, rest, e) ==
    DCarry(hi, IF c > 0 \/ (c = 0 /\ (rest \/ lo % 2 = 1)) THEN lo + 1 ELSE lo, e)
DRoundDrop(h, l, e, drop, rest) ==
    DRoundUp(Field(h, l, drop + LoBits, MantissaBits - LoBits),
             Field(h, l, drop, LoBits),
             Field(h, l, 0, drop) - 2 ^ (drop - 1), rest, e + drop)
DRoundBits(h, l, e, bits, rest) ==
    IF bits = 0 THEN DZero
    ELSE IF bits > MantissaBits
    THEN DRoundDrop(h, l, e, bits - MantissaBits, rest)
    ELSE IF bits <= MantissaBits - LoBits
    THEN [hi |-> l * 2 ^ (MantissaBits - LoBits - bits), lo |-> 0,
          e |-> e + bits - MantissaBits]
    ELSE [hi |-> Field(h, l, bits - (MantissaBits - LoBits),
                       MantissaBits - LoBits),
          lo |-> (l % 2 ^ (bits - (MantissaBits - LoBits)))
                     * 2 ^ (MantissaBits - bits),
          e |-> e + bits - MantissaBits]
DRound(h, l, e, rest) ==
    DRoundBits(h, l, e, IF h > 0 THEN WideBits + BitsOf(h) ELSE BitsOf(l), rest)

\* -1, 0 or 1 as x is below, equal to or above y
DCmp(x, y) ==
    IF DIsZero(x) \/ DIsZero(y)
    THEN (IF DIsZero(x) THEN 0 ELSE 1) - (IF DIsZero(y) THEN 0 ELSE 1)
    ELSE IF x.e # y.e THEN (IF x.e < y.e THEN -1 ELSE 1)
    ELSE IF x.hi # y.hi THEN (IF x.hi < y.hi THEN -1 ELSE 1)
    ELSE IF x.lo # y.lo THEN (IF x.lo < y.lo THEN -1 ELSE 1)
    ELSE 0

\* the mantissa of y with three more digits, brought d digits down to the
\* exponent of a larger float; `rest` says whether digits were lost
Lowered(y, d) ==
    [h |-> IF d >= MantissaBits - LoBits THEN 0 ELSE y.hi \div 2 ^ d,
     l |-> Field(y.hi, 8 * y.lo, d, WideBits),
     rest |-> IF d <= WideBits THEN (8 * y.lo) % 2 ^ d # 0
              ELSE y.lo # 0 \/ y.hi % 2 ^ (d - WideBits) # 0]

\* x + y (sign 1) and x - y (sign -1) for x >= y > 0, rounded once: y is
\* brought down to the exponent of x, and what the lower part of the sum
\* carries or borrows goes to the upper part
DSumLowered(x, y, sign, l) ==
    DRound(x.hi + sign * y.h + l \div WideBase, l % WideBase, x.e - 3, y.rest)
DSumAt(x, y, sign) ==
    DSumLowered(x, y, sign,
                8 * x.lo + sign * y.l - (IF sign < 0 /\ y.rest THEN 1 ELSE 0))
DSumOrdered(x, y, sign) ==
    IF x.e - y.e > MantissaBits + 2 THEN x
    ELSE DSumAt(x, Lowered(y, x.e - y.e), sign)
\* the same of any two floats above 0, c telling which is the larger
DSum(x, y, sign, c) ==
    IF c = 0 /\ sign < 0 THEN DZero
    ELSE DSumOrdered(IF c >= 0 THEN x ELSE y, IF c >= 0 THEN y ELSE x, sign)

\* x * y, rounded once: the mantissas in four limbs of 14 digits, the
\* columns of their product, the carries, and the upper 53 or 54 digits of
\* the eight limbs that result
MulBits == 14
MulBase == 2 ^ MulBits
Limbs(x) ==
    <<x.lo % MulBase,
      x.lo \div MulBase + (x.hi % 2) * 2 ^ (LoBits - MulBits),
      (x.hi \div 2) % MulBase,
      x.hi \div 2 ^ (MulBits + 1)>>
Columns(a, b) ==
    <<a[1] * b[1],
      a[1] * b[2] + a[2] * b[1],
      a[1] * b[3] + a[2] * b[2] + a[3] * b[1],
      a[1] * b[4] + a[2] * b[3] + a[3] * b[2] + a[4] * b[1],
      a[2] * b[4] + a[3] * b[3] + a[4] * b[2],
      a[3] * b[4] + a[4] * b[3],
      a[4] * b[4]>>
RECURSIVE Carried(_, _, _)
Carried(c, i, carry) ==
    IF i > Len(c) THEN <<carry>>
    ELSE <<(c[i] + carry) % MulBase>>
             \o Carried(c, i + 1, (c[i] + carry) \div MulBase)
DMulAt(p, s, e) ==
    DRoundUp((p[6] \div 2 ^ (s - 1)) + p[7] * 2 ^ (15 - s) + p[8] * 2 ^ (29 - s),
             (p[4] \div 2 ^ s) + p[5] * 2 ^ (14 - s)
                 + (p[6] % 2 ^ (s - 1)) * 2 ^ (28 - s),
             IF (p[4] \div 2 ^ (s - 1)) % 2 = 0 THEN -1
             ELSE IF p[4] % 2 ^ (s - 1) # 0 \/ p[3] # 0 \/ p[2] # 0 \/ p[1] # 0
             THEN 1 ELSE 0,
             FALSE, e + 42 + s)
DMulOf(p, e) == DMulAt(p, IF p[8] >= 128 THEN 11 ELSE 10, e)
DMul(x, y) ==
    IF DIsZero(x) \/ DIsZero(y) THEN DZero
    ELSE DMulOf(Carried(Columns(Limbs(x), Limbs(y)), 1, 0), x.e + y.e)

\* one more binary digit of the quotient r / d, for r < 2 d: d is taken
\* from the rest where it fits
QuotientStep(rh, rl, qh, ql, dh, dl) ==
    IF rh > dh \/ (rh = dh /\ rl >= dl)
    THEN [rh |-> IF rl < dl THEN rh - dh - 1 ELSE rh - dh,
          rl |-> IF rl < dl THEN rl - dl + LoBase ELSE rl - dl,
          qh |-> qh, ql |-> ql + 1]
    ELSE [rh |-> rh, rl |-> rl, qh |-> qh, ql |-> ql]
\* the rest and the quotient doubled, and the next digit
QuotientBit(s, dh, dl) ==
    QuotientStep(2 * s.rh + (2 * s.rl) \div LoBase, (2 * s.rl) % LoBase,
                 2 * s.qh + (2 * s.ql) \div WideBase, (2 * s.ql) % WideBase,
                 dh, dl)
\* four more digits
QuotientNibble(s, dh, dl) ==
    QuotientBit(QuotientBit(QuotientBit(QuotientBit(s, dh, dl), dh, dl), dh, dl),
                dh, dl)
\* the binary digits of r / d, four at a time, until nothing is left or
\* `steps` digits are made: the digits, how many were not made (they are
\* zeros) and whether a rest is left
RECURSIVE QuotientBits(_, _, _, _)
QuotientBits(s, dh, dl, steps) ==
    IF (s.rh = 0 /\ s.rl = 0) \/ steps = 0
    THEN [qh |-> s.qh, ql |-> s.ql, left |-> steps,
          rest |-> s.rh # 0 \/ s.rl # 0]
    ELSE QuotientBits(QuotientNibble(s, dh, dl), dh, dl, steps - 4)

\* x / y for y > 0, rounded once: 56 digits of the quotient of the
\* mantissas and whether the division left a rest; a power of two divides
\* exactly
DDivAt(q, e) == DRound(q.qh, q.ql, e + q.left, q.rest)
DDiv(x, y) ==
    IF DIsZero(x) THEN DZero
    ELSE IF y.hi = HiBase \div 2 /\ y.lo = 0
    THEN [hi |-> x.hi, lo |-> x.lo, e |-> x.e - y.e - (MantissaBits - 1)]
    ELSE DDivAt(QuotientBits(QuotientStep(x.hi, x.lo, 0, 0, y.hi, y.lo),
                             y.hi, y.lo, MantissaBits + 3),
                x.e - y.e - (MantissaBits + 3))

\* the float of a whole number n >= 0
DFromInt(n) == DRound(n \div WideBase, n % WideBase, 0, FALSE)

\* The float of the decimal literal n / scale, for a scale below 2^16: the
\* quotient n 2^s / scale is made in steps of 15 binary digits, with s such
\* that it has 56 or 57 of them, and rounded once.  h and l hold the
\* quotient so far, r the rest, and `steps` steps are left, the first of
\* which takes the lower digits `low` of the shifted n.
StepBits == 15
StepBase == 2 ^ StepBits
RECURSIVE ShortQuotient(_, _, _, _, _, _, _)
ShortQuotient(h, l, r, low, scale, steps, s) ==
    IF steps = 0 THEN DRound(h, l, -s, r # 0)
    ELSE ShortQuotient(h * StepBase + l \div StepBase,
                       (l % StepBase) * StepBase
                           + (r * StepBase + low) \div scale,
                       (r * StepBase + low) % scale,
                       0, scale, steps - 1, s)
ShortDivAt(n, scale, s, j) ==
    ShortQuotient(0, (n \div 2 ^ (StepBits - j)) \div scale,
                  (n \div 2 ^ (StepBits - j)) % scale,
                  (n % 2 ^ (StepBits - j)) * 2 ^ j,
                  scale, 1 + s \div StepBits, s)
ShortDiv(n, scale, s) == ShortDivAt(n, scale, s, s % StepBits)
DFromDecimal(n, scale) ==
    IF n = 0 THEN DZero
    ELSE ShortDiv(n, scale, MantissaBits + 3 - BitsOf(n) + BitsOf(scale))

\* A float of either sign: its magnitude and whether it is below zero.
Signed(neg, d) == [neg |-> neg /\ ~DIsZero(d), abs |-> d]
SFromDecimal(n, scale) == Signed(n < 0, DFromDecimal(Abs(n), scale))
\* the float of a whole number
SFromInt(n) == Signed(n < 0, DFromInt(Abs(n)))
SNeg(x) == Signed(~x.neg, x.abs)
SAbs(x) == Signed(FALSE, x.abs)
SIsZero(x) == DIsZero(x.abs)
SAddAt(x, y, c) ==
    IF SIsZero(x) THEN y ELSE IF SIsZero(y) THEN x
    ELSE Signed(IF c >= 0 THEN x.neg ELSE y.neg,
                DSum(x.abs, y.abs, IF x.neg = y.neg THEN 1 ELSE -1, c))
SAdd(x, y) == SAddAt(x, y, DCmp(x.abs, y.abs))
SSub(x, y) == SAdd(x, SNeg(y))
SMul(x, y) == Signed(x.neg # y.neg, DMul(x.abs, y.abs))
SDiv(x, y) == Signed(x.neg # y.neg, DDiv(x.abs, y.abs))
\* -1, 0 or 1 as x is below, equal to or above y
SCmp(x, y) ==
    IF x.neg # y.neg THEN (IF x.neg THEN -1 ELSE 1)
    ELSE IF x.neg THEN DCmp(y.abs, x.abs) ELSE DCmp(x.abs, y.abs)
SLe(x, y) == SCmp(x, y) <= 0
SLt(x, y) == SCmp(x, y) < 0
\* Python's max(a, b) and min(a, b): the first argument unless the second
\* is strictly beyond it
SMax(a, b) == IF SLt(a, b) THEN b ELSE a
SMin(a, b) == IF SLt(b, a) THEN b ELSE a

\* np.rint: the whole number nearest to a float, a tie going to the even one
DRintUp(whole, c) ==
    whole + (IF c > 0 \/ (c = 0 /\ whole % 2 = 1) THEN 1 ELSE 0)
DRint(x) ==
    IF DIsZero(x) \/ -x.e > MantissaBits THEN 0
    ELSE IF -x.e > LoBits
    THEN DRintUp(x.hi \div 2 ^ (-x.e - LoBits),
                 IF x.hi % 2 ^ (-x.e - LoBits) # 2 ^ (-x.e - LoBits - 1)
                 THEN (IF x.hi % 2 ^ (-x.e - LoBits) < 2 ^ (-x.e - LoBits - 1)
                       THEN -1 ELSE 1)
                 ELSE IF x.lo > 0 THEN 1 ELSE 0)
    ELSE IF x.e < 0
    THEN DRintUp(x.hi * 2 ^ (LoBits + x.e) + x.lo \div 2 ^ (-x.e),
                 (x.lo % 2 ^ (-x.e)) - 2 ^ (-x.e - 1))
    ELSE (x.hi * LoBase + x.lo) * 2 ^ x.e

\* the mantissa of a float as a natural number of limbs
Mantissa(d) == BigAdd(BigShl(BigFromInt(d.hi), LoBits), BigFromInt(d.lo))

\* -1, 0 or 1 as the float d lies below, on or above the decimal n / scale
DecimalCmpAt(d, n, scale) ==
    IF DIsZero(d) THEN (IF n = 0 THEN 0 ELSE -1)
    ELSE IF d.e >= 0
    THEN BigCmp(BigMul(BigShl(Mantissa(d), d.e), BigFromInt(scale)),
                BigFromInt(n))
    ELSE BigCmp(BigMul(Mantissa(d), BigFromInt(scale)),
                BigShl(BigFromInt(n), -d.e))
Zero == Signed(FALSE, DZero)
One == SFromInt(1)
Two == SFromInt(2)
Hundred == SFromInt(100)

\* np.rint of a float as a float: a float of 2^30 and more is rounded in
\* the two parts of its mantissa
RintAt(h, l, up) ==
    DRound(IF up /\ l + 1 = WideBase THEN h + 1 ELSE h,
           IF up THEN (l + 1) % WideBase ELSE l, 0, FALSE)
RintOf(h, l, c) == RintAt(h, l, c > 0 \/ (c = 0 /\ l % 2 = 1))
RintFloat(x) ==
    IF DIsZero(x) \/ x.e >= 0 THEN x
    ELSE IF -x.e > MantissaBits - WideBits - 1 THEN DFromInt(DRint(x))
    ELSE RintOf(Field(x.hi \div 8, (x.hi % 8) * LoBase + x.lo,
                      WideBits - x.e, MantissaBits - WideBits),
                Field(x.hi \div 8, (x.hi % 8) * LoBase + x.lo,
                      -x.e, WideBits),
                (x.lo % 2 ^ (-x.e)) - 2 ^ (-x.e - 1))

\* round(x, 2) of a numpy double: np.around multiplies by 100, takes
\* np.rint and divides by 100, each step rounded
Round2(x) ==
    Signed(x.neg, DDiv(RintFloat(DMul(x.abs, DFromInt(100))), DFromInt(100)))

\* f"{x:.nf}" (per = 10^n) of a float x >= 0: the decimal of n digits
\* nearest to the float's own value, a float that is the half itself going
\* to the even digit.  p is x * per rounded and n the whole number nearest
\* to p; x is compared with the halves beside n where p comes near one.
FormatBeside(x, per, n) ==
    IF DecimalCmpAt(x, 2 * n + 1, 2 * per) > 0
       \/ (DecimalCmpAt(x, 2 * n + 1, 2 * per) = 0 /\ n % 2 = 1)
    THEN n + 1
    ELSE IF n > 0
            /\ \/ DecimalCmpAt(x, 2 * n - 1, 2 * per) < 0
               \/ (DecimalCmpAt(x, 2 * n - 1, 2 * per) = 0 /\ n % 2 = 1)
    THEN n - 1
    ELSE n
\* how far the float p >= 0 lies from the whole number n
Apart(p, n) ==
    IF n = 0 THEN p ELSE DSum(p, DFromInt(n), -1, DCmp(p, DFromInt(n)))
FormatAt(x, per, p, n) ==
    IF DCmp(Apart(p, n), DFromDecimal(499, 1000)) > 0
    THEN FormatBeside(x, per, n) ELSE n
FormatOf(x, per, p) == FormatAt(x, per, p, DRint(p))
\* the formatted decimal of a float of either sign, in 1/unit
Format(x, unit, per) ==
    (IF x.neg THEN -1 ELSE 1) * (unit \div per)
        * FormatOf(x.abs, per, DMul(x.abs, DFromInt(per)))

\* A float in the units it is kept in.  A float within Tiny of a whole
\* number of units is kept as that number, unless the number ends in 0 or 5
\* and the float is not the float of that very decimal: it is then kept
\* one unit beside it, on its own side.  Any other float is cut to the
\* whole units below it, and one unit up where they end in 0 or 5.
Tiny == DFromDecimal(1, 1024)
KeepNear(neg, n, c) ==
    (IF neg THEN -1 ELSE 1) * (n + (IF n % 5 = 0 THEN c ELSE 0))
KeepFar(neg, f) ==
    IF neg THEN (IF (f + 1) % 5 = 0 THEN -f ELSE -(f + 1))
    ELSE Cut(f, 1)
KeepAt(x, unit, p, n) ==
    IF DCmp(Apart(p, n), Tiny) <= 0
    THEN KeepNear(x.neg, n, DCmp(x.abs, DFromDecimal(n, unit)))
    ELSE KeepFar(x.neg, IF DCmp(DFromInt(n), p) > 0 THEN n - 1 ELSE n)
KeepOf(x, unit, p) == KeepAt(x, unit, p, DRint(p))
Keep(x, unit) == KeepOf(x, unit, DMul(x.abs, DFromInt(unit)))

\* a float too large for the units is kept as Large units
Large == 200000
KeepWithin(x, unit) ==
    IF DCmp(x.abs, DFromInt(Large)) >= 0
    THEN (IF x.neg THEN -1 ELSE 1) * Large * unit
    ELSE Keep(x, unit)

\* A value of a series is a float, NaN, or the zero with the sign bit set,
\* which pandas counts as a negative value.
Value(v) == [v |-> v, nan |-> FALSE, minus |-> v.neg]
Missing == [v |-> Zero, nan |-> TRUE, minus |-> FALSE]
NegativeZero == [v |-> Zero, nan |-> FALSE, minus |-> TRUE]

\* A series: the floats the code holds and, beside them, the numbers kept
\* for them (NaN where the float is NaN; the float there is not looked at).
Series(x, unit) ==
    [values |-> [t \in DOMAIN x |->
                    IF x[t].nan THEN NaN ELSE Keep(x[t].v, unit)],
     floats |-> [t \in DOMAIN x |-> x[t].v]]
SeriesOfFloats(x, unit) ==
    [values |-> [t \in DOMAIN x |-> Keep(x[t], unit)], floats |-> x]
\* the series of the floats that decimals given in 1/unit are written for
Literal(values, unit) ==
    [values |-> values,
     floats |-> [t \in DOMAIN values |->
                    IF values[t] = NaN THEN Zero
                    ELSE SFromDecimal(values[t], unit)]]
\* a number kept, NaN when the value is NaN
KeepValue(x, unit) == IF x.nan THEN NaN ELSE Keep(x.v, unit)


-----------------------------------------------------------------------------
(* config.py *)

EMA_SHORT_PERIOD == 9
EMA_LONG_PERIOD == 21
RSI_PERIOD == 14
RSI_OVERBOUGHT == 70
RSI_OVERSOLD == 30
\* SIGNAL_WEIGHTS, in tenths
WEIGHT_EMA_CROSSOVER == 4
WEIGHT_RSI_CONFIRMATION == 3
WEIGHT_VOLUME_CONFIRMATION == 2
WEIGHT_TREND_STRENGTH == 1
STOP_LOSS_ATR_MULTIPLIER == 2
TAKE_PROFIT_RATIO == 2
\* default arguments of indicators.py
ATR_PERIOD == 14
SR_LOOKBACK == 20
VOLUME_PERIOD == 20

-----------------------------------------------------------------------------
(* indicators.py: TechnicalIndicators *)

AllColumns == {"open", "high", "low", "close", "volume"}

\* df[c]: the column as a series (1-based positions), in 1/PriceUnit
Column(df, c) == [i \in 1..Len(df.bars) |-> df.bars[i][c]]

\* len(series) and series.iloc[-1]
Size(s) == Cardinality(DOMAIN s)
Last(s) == s[Size(s)]

\* series.tail(n)
TailN(s, n) ==
    IF Size(s) <= n THEN [i \in 1..Size(s) |-> s[i]]
    ELSE [i \in 1..n |-> s[Size(s) - n + i]]

RECURSIVE SeqSum(_, _, _)
SeqSum(s, lo, hi) == IF lo > hi THEN 0 ELSE s[hi] + SeqSum(s, lo, hi - 1)

RECURSIVE SeqMax(_, _)
SeqMax(s, n) == IF n = 1 THEN s[1] ELSE Max(s[n], SeqMax(s, n - 1))

RECURSIVE SeqMin(_, _)
SeqMin(s, n) == IF n = 1 THEN s[1] ELSE Min(s[n], SeqMin(s, n - 1))

\* a column of prices as the floats the frame holds
RECURSIVE FloatsFrom(_, _, _)
FloatsFrom(data, lo, hi) ==
    IF lo > hi THEN <<>>
    ELSE IF lo = hi THEN <<SFromDecimal(data[lo], PriceUnit)>>
    ELSE FloatsFrom(data, lo, (lo + hi) \div 2)
             \o FloatsFrom(data, (lo + hi) \div 2 + 1, hi)
Floats(data) == FloatsFrom(data, 1, Size(data))

\* data.ewm(span=period, adjust=False).mean() as pandas computes it: with
\* com = (span - 1) / 2.0, alpha = 1 / (1 + com), old_wt_factor = 1 - alpha
\* and new_wt = alpha, the first mean is the first value and a mean that
\* differs from the next value becomes
\* (old_wt * mean + new_wt * value) / (old_wt + new_wt), old_wt being
\* old_wt_factor and every step rounded
Com_wilder(period) == SFromInt(period - 1)
Com(period) == SDiv(SFromInt(period - 1), Two)
Alpha(period) == SDiv(One, SAdd(One, Com(period)))
EwmStep(weighted, cur, old_wt, new_wt) ==
    IF SCmp(weighted, cur) = 0 THEN weighted
    ELSE SDiv(SAdd(SMul(old_wt, weighted), SMul(new_wt, cur)),
              SAdd(old_wt, new_wt))
RECURSIVE EwmFrom(_, _, _, _, _, _)
RECURSIVE EwmOnward(_, _, _, _, _, _)
EwmFrom(x, old_wt, new_wt, lo, hi, weighted) ==
    IF lo > hi THEN <<>>
    ELSE IF lo = hi THEN <<EwmStep(weighted, x[lo], old_wt, new_wt)>>
    ELSE EwmOnward(x, old_wt, new_wt, (lo + hi) \div 2 + 1, hi,
                   EwmFrom(x, old_wt, new_wt, lo, (lo + hi) \div 2, weighted))
EwmOnward(x, old_wt, new_wt, lo, hi, acc) ==
    acc \o EwmFrom(x, old_wt, new_wt, lo, hi, acc[Len(acc)])
Ewm(x, alpha) ==
    IF Len(x) = 0 THEN <<>>
    ELSE <<x[1]>> \o EwmFrom(x, SSub(One, alpha), alpha, 2, Len(x), x[1])

calculate_ema(data, period) ==
    SeriesOfFloats(Ewm(Floats(data), Alpha(period)), PriceUnit)

\* Kahan's compensated addition of y to a sum: the new sum and what the
\* addition lost
KahanAt(sum, y, t) == [sum |-> t, lost |-> SSub(SSub(t, sum), y)]
Kahan(sum, y) == KahanAt(sum, y, SAdd(sum, y))

\* pandas' add_mean and remove_mean on the state of a window
AddMeanAt(s, val, k) ==
    [sum_x |-> k.sum,
     compensation_add |-> k.lost,
     compensation_remove |-> s.compensation_remove,
     nobs |-> s.nobs + 1,
     neg_ct |-> s.neg_ct + (IF val.minus THEN 1 ELSE 0),
     same |-> IF s.same > 0 /\ SCmp(val.v, s.prev_value) = 0
              THEN s.same + 1 ELSE 1,
     prev_value |-> val.v]
add_mean(s, val) ==
    IF val.nan THEN s
    ELSE AddMeanAt(s, val, Kahan(s.sum_x, SSub(val.v, s.compensation_add)))
RemoveMeanAt(s, val, k) ==
    [sum_x |-> k.sum,
     compensation_add |-> s.compensation_add,
     compensation_remove |-> k.lost,
     nobs |-> s.nobs - 1,
     neg_ct |-> s.neg_ct - (IF val.minus THEN 1 ELSE 0),
     same |-> s.same,
     prev_value |-> s.prev_value]
remove_mean(s, val) ==
    IF val.nan THEN s
    ELSE RemoveMeanAt(s, val,
                      Kahan(s.sum_x,
                            SSub(SNeg(val.v), s.compensation_remove)))

\* pandas' calc_mean: NaN while the window holds fewer than min_periods
\* values; else sum_x / nobs, the value itself when the window holds one
\* value only, and 0 for a mean on the wrong side of 0
CalcMeanAt(s, mean) ==
    IF s.same >= s.nobs THEN s.prev_value
    ELSE IF s.neg_ct = 0 /\ mean.neg THEN Zero
    ELSE IF s.neg_ct = s.nobs /\ ~mean.neg /\ ~SIsZero(mean) THEN Zero
    ELSE mean
calc_mean(s, period) ==
    IF s.nobs >= period /\ s.nobs > 0
    THEN Value(CalcMeanAt(s, SDiv(s.sum_x, SFromInt(s.nobs))))
    ELSE Missing

\* roll_mean: the window moves on by one value
Onward(acc, next) == [acc |-> acc \o next.acc, s |-> next.s]
RollStep(x, period, t, s) ==
    add_mean(IF t > period THEN remove_mean(s, x[t - period]) ELSE s, x[t])
RollMeanAt(s, period) == [acc |-> <<calc_mean(s, period)>>, s |-> s]
RECURSIVE RollMeanFrom(_, _, _, _, _)
RECURSIVE RollMeanOnward(_, _, _, _, _)
RollMeanFrom(x, period, lo, hi, s) ==
    IF lo = hi THEN RollMeanAt(RollStep(x, period, lo, s), period)
    ELSE RollMeanOnward(x, period, (lo + hi) \div 2 + 1, hi,
                        RollMeanFrom(x, period, lo, (lo + hi) \div 2, s))
RollMeanOnward(x, period, lo, hi, first) ==
    Onward(first.acc, RollMeanFrom(x, period, lo, hi, first.s))
\* series.rolling(window=period).mean() of the n values x
roll_mean(x, n, period) ==
    IF n = 0 THEN <<>>
    ELSE RollMeanFrom(x, period, 1, n,
                      [sum_x |-> Zero, compensation_add |-> Zero,
                       compensation_remove |-> Zero, nobs |-> 0, neg_ct |-> 0,
                       same |-> 0, prev_value |-> Zero]).acc

\* delta.where(delta > 0, 0) and -delta.where(delta < 0, 0) of
\* delta = data.diff(): the first position, whose delta is NaN, becomes 0,
\* and the 0 of the losses is negated
GainAt(delta) == IF delta.neg THEN Value(Zero) ELSE Value(delta)
Gain(x, t) == IF t = 1 THEN Value(Zero) ELSE GainAt(SSub(x[t], x[t - 1]))
LossAt(delta) == IF delta.neg THEN Value(SNeg(delta)) ELSE NegativeZero
Loss(x, t) == IF t = 1 THEN NegativeZero ELSE LossAt(SSub(x[t], x[t - 1]))

\* the relative strength itself, as a percentage, taken for the index
RsiAt_ratio(gain, loss) ==
    IF gain.nan \/ loss.nan THEN Missing
    ELSE IF SIsZero(loss.v)
    THEN (IF SIsZero(gain.v) THEN Missing ELSE Value(Hundred))
    ELSE Value(SMul(SDiv(gain.v, loss.v), Hundred))

\* rs = gain / loss and rsi = 100 - (100 / (1 + rs)) of the two rolling
\* means: 0 / 0 is NaN, and gain / 0 is an infinity, which gives 100
RsiAt(gain, loss) ==
    IF gain.nan \/ loss.nan THEN Missing
    ELSE IF SIsZero(loss.v)
    THEN (IF SIsZero(gain.v) THEN Missing ELSE Value(Hundred))
    ELSE Value(SSub(Hundred,
                    SDiv(Hundred, SAdd(One, SDiv(gain.v, loss.v)))))

\* lines 36-41 of the floats x of the column
RsiOf(gain, loss) == [t \in DOMAIN gain |-> RsiAt(gain[t], loss[t])]
RsiFrom(x, period) ==
    RsiOf(roll_mean([t \in 1..Len(x) |-> Gain(x, t)], Len(x), period),
          roll_mean([t \in 1..Len(x) |-> Loss(x, t)], Len(x), period))

\* the index along a column, kept in 1/Milli
calculate_rsi(data, period) == Series(RsiFrom(Floats(data), period), Milli)

\* the true range with the first position degenerating to high - low
TrueRange_first(high, low, close, t) ==
    IF t = 1 THEN Value(SSub(high[t], low[t]))
    ELSE Value(SMax(SSub(high[t], low[t]),
                    SMax(SAbs(SSub(high[t], close[t - 1])),
                         SAbs(SSub(low[t], close[t - 1])))))

\* the true range from signed differences, low - high for the bar's range
TrueRange_signed(high, low, close, t) ==
    IF t = 1 THEN Missing
    ELSE Value(SMax(SSub(low[t], high[t]),
                    SMax(SSub(high[t], close[t - 1]),
                         SSub(low[t], close[t - 1]))))

\* np.maximum(high - low, np.maximum(|high - close.shift()|,
\* |low - close.shift()|)): np.maximum propagates the NaN of the first
\* position, which has no previous close
TrueRange(high, low, close, t) ==
    IF t = 1 THEN Missing
    ELSE Value(SMax(SSub(high[t], low[t]),
                    SMax(SAbs(SSub(high[t], close[t - 1])),
                         SAbs(SSub(low[t], close[t - 1])))))

\* true_range.rolling(window=period).mean() of the floats of the columns
AtrFrom(high, low, close, period) ==
    roll_mean([t \in 1..Len(close) |-> TrueRange(high, low, close, t)],
              Len(close), period)

calculate_atr(high, low, close, period) ==
    Series(AtrFrom(Floats(high), Floats(low), Floats(close), period),
           PriceUnit)

\* lines 87-88 with the two levels exchanged
PivotLevels_swapped(recent_high, recent_low, pivot) ==
    [support |-> SSub(SMul(Two, pivot), recent_low),
     resistance |-> SSub(SMul(Two, pivot), recent_high),
     pivot |-> pivot,
     recent_high |-> recent_high,
     recent_low |-> recent_low]

\* lines 87-96: resistance1, support1 and the returned record
PivotLevels(recent_high, recent_low, pivot) ==
    [support |-> SSub(SMul(Two, pivot), recent_high),
     resistance |-> SSub(SMul(Two, pivot), recent_low),
     pivot |-> pivot,
     recent_high |-> recent_high,
     recent_low |-> recent_low]

\* line 86: pivot
Pivot(recent_high, recent_low, current_price) ==
    PivotLevels(recent_high, recent_low,
                SDiv(SAdd(SAdd(recent_high, recent_low), current_price),
                     SFromInt(3)))

\* the levels kept in 1/PriceUnit beside their floats
LevelsOf(recent_high, recent_low, floats) ==
    [support |-> Keep(floats.support, PriceUnit),
     resistance |-> Keep(floats.resistance, PriceUnit),
     pivot |-> Keep(floats.pivot, PriceUnit),
     recent_high |-> recent_high,
     recent_low |-> recent_low,
     floats |-> floats]
\* lines 80-96 of the highest high, the lowest low and the last close, in
\* 1/PriceUnit
LevelsAt(recent_high, recent_low, current_price) ==
    LevelsOf(recent_high, recent_low,
             Pivot(SFromDecimal(recent_high, PriceUnit),
                   SFromDecimal(recent_low, PriceUnit),
                   SFromDecimal(current_price, PriceUnit)))

calculate_support_resistance(high, low, close, lookback) ==
    LevelsAt(SeqMax(TailN(high, lookback), Size(TailN(high, lookback))),
             SeqMin(TailN(low, lookback), Size(TailN(low, lookback))),
             Last(close))

\* lines 112-119: volume_ratio = current_volume / avg_volume if
\* avg_volume > 0 else 1.0, avg_volume the mean of the recent volumes
VolumeProfileOf(current_volume, volume_ratio) ==
    [current_volume |-> current_volume,
     volume_ratio |-> Keep(volume_ratio, Milli),
     is_high_volume |-> SLt(SFromDecimal(15, 10), volume_ratio),
     floats |-> [volume_ratio |-> volume_ratio]]
VolumeProfileAt(current_volume, total, n) ==
    VolumeProfileOf(current_volume,
                    IF total > 0
                    THEN SDiv(SFromInt(current_volume),
                              SDiv(SFromInt(total), SFromInt(n)))
                    ELSE One)
calculate_volume_profile(volume, period) ==
    VolumeProfileAt(Last(volume),
                    SeqSum(TailN(volume, period), 1,
                           Size(TailN(volume, period))),
                    Size(TailN(volume, period)))

\* line 136: separation = abs(current_short - current_long)
\*                        / current_long * 100
Separation(current_short, current_long) ==
    SMul(SDiv(SAbs(SSub(current_short, current_long)), current_long), Hundred)
\* the same of two values given in 1/PriceUnit, kept in 1/Milli
SeparationPercent(short, long) ==
    Keep(Separation(SFromDecimal(short, PriceUnit),
                    SFromDecimal(long, PriceUnit)), Milli)

\* min(separation / 2.0, 5.0) and min(separation, 5.0)
Five == SFromInt(5)
TrendStrength(separation) == SMin(SDiv(separation, Two), Five)

\* lines 139-155: the direction and the strength at a separation, kept in
\* 1/Milli beside their floats
TrendOf(direction, strength, separation) ==
    [direction |-> direction,
     strength |-> Keep(strength, Milli),
     separation_percent |-> Keep(separation, Milli),
     floats |-> [strength |-> strength, separation_percent |-> separation]]
TrendAt(current_short, current_long, separation) ==
    IF SLt(current_long, current_short)
    THEN TrendOf("BULLISH", TrendStrength(separation), separation)
    ELSE IF SLt(current_short, current_long)
    THEN TrendOf("BEARISH", TrendStrength(separation), separation)
    ELSE TrendOf("NEUTRAL", Zero, separation)

calculate_trend_strength(ema_short, ema_long) ==
    TrendAt(Last(ema_short.floats), Last(ema_long.floats),
            Separation(Last(ema_short.floats), Last(ema_long.floats)))

\* the crossover and its strength, kept in 1/Milli beside its float
CrossoverOf(crossover, signal_strength) ==
    [crossover |-> crossover,
     signal_strength |-> Keep(signal_strength, Milli),
     floats |-> [signal_strength |-> signal_strength]]

\* detect_ema_crossover asking for the short EMA strictly on the other side
\* of the long one at the previous position
CrossoverAt_strict(prev_short, prev_long, current_short, current_long) ==
    IF SLt(prev_short, prev_long) /\ SLt(current_long, current_short)
    THEN CrossoverOf("BULLISH",
                     SMin(Separation(current_short, current_long), Five))
    ELSE IF SLt(prev_long, prev_short) /\ SLt(current_short, current_long)
    THEN CrossoverOf("BEARISH",
                     SMin(Separation(current_short, current_long), Five))
    ELSE CrossoverOf("NONE", Zero)

\* lines 177-187
CrossoverAt(prev_short, prev_long, current_short, current_long) ==
    IF SLe(prev_short, prev_long) /\ SLt(current_long, current_short)
    THEN CrossoverOf("BULLISH",
                     SMin(Separation(current_short, current_long), Five))
    ELSE IF SLe(prev_long, prev_short) /\ SLt(current_short, current_long)
    THEN CrossoverOf("BEARISH",
                     SMin(Separation(current_short, current_long), Five))
    ELSE CrossoverOf("NONE", Zero)

\* lines 168-194
detect_ema_crossover(ema_short, ema_long) ==
    IF Size(ema_short.floats) < 2 \/ Size(ema_long.floats) < 2
    THEN CrossoverOf("NONE", Zero)
    ELSE CrossoverAt(ema_short.floats[Size(ema_short.floats) - 1],
                     ema_long.floats[Size(ema_long.floats) - 1],
                     Last(ema_short.floats), Last(ema_long.floats))

\* a value of a series of the dict: the float at a position, NaN where the
\* number kept there is
ValueAt(series, t) ==
    IF series.values[t] = NaN THEN Missing ELSE Value(series.floats[t])

\* rsi.iloc[-1] - rsi.iloc[-2] if len(rsi) >= 2 else 0
Momentum(rsi, n) ==
    IF n < 2 THEN Value(Zero)
    ELSE IF ValueAt(rsi, n).nan \/ ValueAt(rsi, n - 1).nan THEN Missing
    ELSE Value(SSub(rsi.floats[n], rsi.floats[n - 1]))

\* a comparison with NaN is false
AtLeast(x, level) == ~x.nan /\ SLe(SFromInt(level), x.v)
AtMost(x, level) == ~x.nan /\ SLe(x.v, SFromInt(level))
Above(x, level) == ~x.nan /\ SLt(SFromInt(level), x.v)
Below(x, level) == ~x.nan /\ SLt(x.v, SFromInt(level))

\* analyze_rsi_conditions with the two levels themselves left NEUTRAL
RsiConditions_exclusive(current_rsi, rsi_momentum) ==
    [current_rsi |-> KeepValue(current_rsi, Milli),
     condition |-> IF Above(current_rsi, RSI_OVERBOUGHT) THEN "OVERBOUGHT"
                   ELSE IF Below(current_rsi, RSI_OVERSOLD) THEN "OVERSOLD"
                   ELSE "NEUTRAL",
     momentum |-> KeepValue(rsi_momentum, Milli),
     is_overbought |-> Above(current_rsi, RSI_OVERBOUGHT),
     is_oversold |-> Below(current_rsi, RSI_OVERSOLD),
     floats |-> [current_rsi |-> current_rsi.v, momentum |-> rsi_momentum.v]]

\* lines 206-229 of current_rsi and rsi_momentum
RsiConditions(current_rsi, rsi_momentum) ==
    [current_rsi |-> KeepValue(current_rsi, Milli),
     condition |-> IF AtLeast(current_rsi, RSI_OVERBOUGHT) THEN "OVERBOUGHT"
                   ELSE IF AtMost(current_rsi, RSI_OVERSOLD) THEN "OVERSOLD"
                   ELSE "NEUTRAL",
     momentum |-> KeepValue(rsi_momentum, Milli),
     is_overbought |-> AtLeast(current_rsi, RSI_OVERBOUGHT),
     is_oversold |-> AtMost(current_rsi, RSI_OVERSOLD),
     floats |-> [current_rsi |-> current_rsi.v, momentum |-> rsi_momentum.v]]

analyze_rsi_conditions(rsi) ==
    RsiConditions(ValueAt(rsi, Size(rsi.values)),
                  Momentum(rsi, Size(rsi.values)))

\* The exception calculate_all_indicators catches, as str(e), in the order
\* the code reaches the faults: df['close'] (line 243), df['high'],
\* df['low'] (line 250), close.iloc[-1] of an empty frame (line 83),
\* df['volume'] (line 258).  "" when none is raised.
IndicatorFault(df) ==
    IF "close" \notin df.cols THEN "'close'"
    ELSE IF "high" \notin df.cols THEN "'high'"
    ELSE IF "low" \notin df.cols THEN "'low'"
    ELSE IF Len(df.bars) = 0 THEN "single positional indexer is out-of-bounds"
    ELSE IF "volume" \notin df.cols THEN "'volume'"
    ELSE ""

\* the empty dict returned by the except branch
EmptyDict == [failed |-> TRUE]

\* lines 243-281; `floats` holds the float of current_price
IndicatorsOf(df, close, ema_short, ema_long, rsi, atr, levels) ==
    [failed |-> FALSE,
     ema_short |-> ema_short,
     ema_long |-> ema_long,
     rsi |-> rsi,
     atr |-> atr,
     current_price |-> Last(close),
     support_resistance |-> levels,
     volume_profile |->
         calculate_volume_profile(Column(df, "volume"), VOLUME_PERIOD),
     trend_analysis |-> calculate_trend_strength(ema_short, ema_long),
     crossover_analysis |-> detect_ema_crossover(ema_short, ema_long),
     rsi_analysis |-> analyze_rsi_conditions(rsi),
     timestamp |-> df.bars[Len(df.bars)].timestamp,
     floats |-> [current_price |-> SFromDecimal(Last(close), PriceUnit)]]
IndicatorsFrom(df, close, high, low) ==
    IndicatorsOf(df, close,
                 calculate_ema(close, EMA_SHORT_PERIOD),
                 calculate_ema(close, EMA_LONG_PERIOD),
                 calculate_rsi(close, RSI_PERIOD),
                 calculate_atr(high, low, close, ATR_PERIOD),
                 calculate_support_resistance(high, low, close, SR_LOOKBACK))

calculate_all_indicators(df) ==
    IF IndicatorFault(df) # "" THEN EmptyDict
    ELSE IndicatorsFrom(df, Column(df, "close"), Column(df, "high"),
                        Column(df, "low"))

-----------------------------------------------------------------------------
(* signal_generator.py: SignalGenerator *)

\* A number of the dict as the analyzers read it: the float, NaN where the
\* number kept is NaN
Num(kept, x) == IF kept = NaN THEN Missing ELSE Value(x)

\* f"{x:.1f}" and f"{x:.2f}" of a value, in 1/Milli, and f"{x:.2f}" of a
\* price, in 1/PriceUnit; "nan" for NaN
Fmt1(x) == IF x.nan THEN NaN ELSE Format(x.v, Milli, 10)
Fmt2(x) == IF x.nan THEN NaN ELSE Format(x.v, Milli, 100)
FmtPrice(x) == IF x.nan THEN NaN ELSE Format(x.v, PriceUnit, 100)

\* a judgment: the strength kept in 1/Milli beside its float
EmaJudgment(signal, strength, reasoning, crossover, trend) ==
    [signal |-> signal,
     strength |-> Keep(strength, Milli),
     reasoning |-> reasoning,
     crossover_type |-> crossover.crossover,
     trend_direction |-> trend.direction,
     trend_strength |-> trend.strength,
     floats |-> [strength |-> strength]]

\* _analyze_ema_signal following a trend of strength 2.0 already
_analyze_ema_signal_inclusive(indicator_data) ==
    LET crossover == indicator_data.crossover_analysis
        trend == indicator_data.trend_analysis
    IN  IF crossover.crossover = "BULLISH"
        THEN EmaJudgment("BUY", crossover.floats.signal_strength,
                         <<<<"EMA-9 crossed above EMA-21">>>>,
                         crossover, trend)
        ELSE IF crossover.crossover = "BEARISH"
        THEN EmaJudgment("SELL", crossover.floats.signal_strength,
                         <<<<"EMA-9 crossed below EMA-21">>>>,
                         crossover, trend)
        ELSE IF trend.direction = "BULLISH" /\ SLe(Two, trend.floats.strength)
        THEN EmaJudgment("BUY",
                         SMul(trend.floats.strength, SFromDecimal(5, 10)),
                         <<<<"Strong bullish trend (separation: %)",
                             Fmt2(Value(trend.floats.separation_percent))>>>>,
                         crossover, trend)
        ELSE IF trend.direction = "BEARISH" /\ SLe(Two, trend.floats.strength)
        THEN EmaJudgment("SELL",
                         SMul(trend.floats.strength, SFromDecimal(5, 10)),
                         <<<<"Strong bearish trend (separation: %)",
                             Fmt2(Value(trend.floats.separation_percent))>>>>,
                         crossover, trend)
        ELSE EmaJudgment("HOLD", Zero, <<<<"No significant EMA signal">>>>,
                         crossover, trend)

\* lines 64-101
_analyze_ema_signal(indicator_data) ==
    LET crossover == indicator_data.crossover_analysis
        trend == indicator_data.trend_analysis
    IN  IF crossover.crossover = "BULLISH"
        THEN EmaJudgment("BUY", crossover.floats.signal_strength,
                         <<<<"EMA-9 crossed above EMA-21">>>>,
                         crossover, trend)
        ELSE IF crossover.crossover = "BEARISH"
        THEN EmaJudgment("SELL", crossover.floats.signal_strength,
                         <<<<"EMA-9 crossed below EMA-21">>>>,
                         crossover, trend)
        ELSE IF trend.direction = "BULLISH" /\ SLt(Two, trend.floats.strength)
        THEN EmaJudgment("BUY",
                         SMul(trend.floats.strength, SFromDecimal(5, 10)),
                         <<<<"Strong bullish trend (separation: %)",
                             Fmt2(Value(trend.floats.separation_percent))>>>>,
                         crossover, trend)
        ELSE IF trend.direction = "BEARISH" /\ SLt(Two, trend.floats.strength)
        THEN EmaJudgment("SELL",
                         SMul(trend.floats.strength, SFromDecimal(5, 10)),
                         <<<<"Strong bearish trend (separation: %)",
                             Fmt2(Value(trend.floats.separation_percent))>>>>,
                         crossover, trend)
        ELSE EmaJudgment("HOLD", Zero, <<<<"No significant EMA signal">>>>,
                         crossover, trend)

RsiJudgment(signal, strength, reasoning, rsi_data) ==
    [signal |-> signal,
     strength |-> Keep(strength, Milli),
     reasoning |-> reasoning,
     current_rsi |-> rsi_data.current_rsi,
     condition |-> rsi_data.condition,
     momentum |-> rsi_data.momentum,
     floats |-> [strength |-> strength]]

\* (RSI_OVERSOLD - current_rsi) / 10 and (current_rsi - RSI_OVERBOUGHT) / 10
OversoldBy(current_rsi) ==
    SDiv(SSub(SFromInt(RSI_OVERSOLD), current_rsi), SFromInt(10))
OverboughtBy(current_rsi) ==
    SDiv(SSub(current_rsi, SFromInt(RSI_OVERBOUGHT)), SFromInt(10))
\* min(momentum / 10, 2.0) and min(abs(momentum) / 10, 2.0)
MomentumStrength(momentum) == SMin(SDiv(SAbs(momentum), SFromInt(10)), Two)

\* _analyze_rsi_signal following the move: oversold sells, overbought buys
_analyze_rsi_signal_following(indicator_data) ==
    LET rsi_data == indicator_data.rsi_analysis
        current_rsi == Num(rsi_data.current_rsi, rsi_data.floats.current_rsi)
    IN  IF rsi_data.is_oversold
        THEN RsiJudgment("SELL", OversoldBy(current_rsi.v),
                         <<<<"RSI oversold at", Fmt1(current_rsi)>>>>,
                         rsi_data)
        ELSE IF rsi_data.is_overbought
        THEN RsiJudgment("BUY", OverboughtBy(current_rsi.v),
                         <<<<"RSI overbought at", Fmt1(current_rsi)>>>>,
                         rsi_data)
        ELSE RsiJudgment("HOLD", Zero,
                         <<<<"RSI neutral at", Fmt1(current_rsi)>>>>,
                         rsi_data)

\* lines 103-141
_analyze_rsi_signal(indicator_data) ==
    LET rsi_data == indicator_data.rsi_analysis
        current_rsi == Num(rsi_data.current_rsi, rsi_data.floats.current_rsi)
        momentum == Num(rsi_data.momentum, rsi_data.floats.momentum)
    IN  IF rsi_data.is_oversold
        THEN RsiJudgment("BUY", OversoldBy(current_rsi.v),
                         <<<<"RSI oversold at", Fmt1(current_rsi)>>>>,
                         rsi_data)
        ELSE IF rsi_data.is_overbought
        THEN RsiJudgment("SELL", OverboughtBy(current_rsi.v),
                         <<<<"RSI overbought at", Fmt1(current_rsi)>>>>,
                         rsi_data)
        ELSE IF Above(momentum, 5) /\ Below(current_rsi, 60)
        THEN RsiJudgment("BUY", MomentumStrength(momentum.v),
                         <<<<"Strong RSI momentum", Fmt1(momentum)>>>>,
                         rsi_data)
        ELSE IF Below(momentum, -5) /\ Above(current_rsi, 40)
        THEN RsiJudgment("SELL", MomentumStrength(momentum.v),
                         <<<<"Negative RSI momentum", Fmt1(momentum)>>>>,
                         rsi_data)
        ELSE RsiJudgment("HOLD", Zero,
                         <<<<"RSI neutral at", Fmt1(current_rsi)>>>>,
                         rsi_data)

VolumeJudgment(strength, reasoning, volume_data) ==
    [signal |-> "NEUTRAL",
     strength |-> Keep(strength, Milli),
     reasoning |-> reasoning,
     volume_ratio |-> volume_data.volume_ratio,
     is_high_volume |-> volume_data.is_high_volume,
     floats |-> [strength |-> strength]]

\* (volume_ratio - 1.0) * 2
Excess(volume_ratio) == SMul(SSub(volume_ratio, One), Two)

\* _analyze_volume_signal giving no reason for a normal volume
_analyze_volume_signal_silent(indicator_data) ==
    LET volume_data == indicator_data.volume_profile
        volume_ratio == volume_data.floats.volume_ratio
    IN  IF volume_data.is_high_volume
        THEN VolumeJudgment(SMin(Excess(volume_ratio), SFromInt(3)),
                            <<<<"High volume confirmation",
                                Fmt1(Value(volume_ratio))>>>>, volume_data)
        ELSE IF SLt(volume_ratio, SFromDecimal(5, 10))
        THEN VolumeJudgment(SFromInt(-1),
                            <<<<"Low volume warning",
                                Fmt1(Value(volume_ratio))>>>>, volume_data)
        ELSE VolumeJudgment(Zero, <<>>, volume_data)

\* _analyze_volume_signal without the cap of the high-volume strength
_analyze_volume_signal_uncapped(indicator_data) ==
    LET volume_data == indicator_data.volume_profile
        volume_ratio == volume_data.floats.volume_ratio
    IN  IF volume_data.is_high_volume
        THEN VolumeJudgment(Excess(volume_ratio),
                            <<<<"High volume confirmation",
                                Fmt1(Value(volume_ratio))>>>>, volume_data)
        ELSE IF SLt(volume_ratio, SFromDecimal(5, 10))
        THEN VolumeJudgment(SFromInt(-1),
                            <<<<"Low volume warning",
                                Fmt1(Value(volume_ratio))>>>>, volume_data)
        ELSE VolumeJudgment(Zero,
                            <<<<"Normal volume",
                                Fmt1(Value(volume_ratio))>>>>, volume_data)

\* lines 143-168
_analyze_volume_signal(indicator_data) ==
    LET volume_data == indicator_data.volume_profile
        volume_ratio == volume_data.floats.volume_ratio
    IN  IF volume_data.is_high_volume
        THEN VolumeJudgment(SMin(Excess(volume_ratio), SFromInt(3)),
                            <<<<"High volume confirmation",
                                Fmt1(Value(volume_ratio))>>>>, volume_data)
        ELSE IF SLt(volume_ratio, SFromDecimal(5, 10))
        THEN VolumeJudgment(SFromInt(-1),
                            <<<<"Low volume warning",
                                Fmt1(Value(volume_ratio))>>>>, volume_data)
        ELSE VolumeJudgment(Zero,
                            <<<<"Normal volume",
                                Fmt1(Value(volume_ratio))>>>>, volume_data)

\* current_price <= support * 1.01 and current_price >= resistance * 0.99,
\* the product rounded
NearSupport(current_price, support) ==
    SLe(current_price, SMul(support, SFromDecimal(101, 100)))
NearResistance(current_price, resistance) ==
    SLe(SMul(resistance, SFromDecimal(99, 100)), current_price)

TrendJudgment(signal, strength, reasoning, levels, trend_data) ==
    [signal |-> signal,
     strength |-> Keep(strength, Milli),
     reasoning |->
         reasoning \o (IF SLt(SFromInt(3), trend_data.floats.strength)
                       THEN <<<<"Strong trend", trend_data.direction>>>>
                       ELSE <<>>),
     support_level |-> levels.support,
     resistance_level |-> levels.resistance,
     trend_direction |-> trend_data.direction,
     floats |-> [strength |-> strength]]

\* _analyze_trend_signal looking at the resistance before the support
_analyze_trend_signal_resistance(indicator_data) ==
    LET trend_data == indicator_data.trend_analysis
        levels == indicator_data.support_resistance
        support == levels.floats.support
        resistance == levels.floats.resistance
        current_price == indicator_data.floats.current_price
    IN  IF NearResistance(current_price, resistance)
        THEN TrendJudgment("SELL", Two,
                           <<<<"Price near resistance level",
                               FmtPrice(Value(resistance))>>>>,
                           levels, trend_data)
        ELSE IF NearSupport(current_price, support)
        THEN TrendJudgment("BUY", Two,
                           <<<<"Price near support level",
                               FmtPrice(Value(support))>>>>,
                           levels, trend_data)
        ELSE TrendJudgment("HOLD", Zero,
                           <<<<"Price between support and resistance",
                               FmtPrice(Value(support)),
                               FmtPrice(Value(resistance))>>>>,
                           levels, trend_data)

\* lines 170-206
_analyze_trend_signal(indicator_data) ==
    LET trend_data == indicator_data.trend_analysis
        levels == indicator_data.support_resistance
        support == levels.floats.support
        resistance == levels.floats.resistance
        current_price == indicator_data.floats.current_price
    IN  IF NearSupport(current_price, support)
        THEN TrendJudgment("BUY", Two,
                           <<<<"Price near support level",
                               FmtPrice(Value(support))>>>>,
                           levels, trend_data)
        ELSE IF NearResistance(current_price, resistance)
        THEN TrendJudgment("SELL", Two,
                           <<<<"Price near resistance level",
                               FmtPrice(Value(resistance))>>>>,
                           levels, trend_data)
        ELSE TrendJudgment("HOLD", Zero,
                           <<<<"Price between support and resistance",
                               FmtPrice(Value(support)),
                               FmtPrice(Value(resistance))>>>>,
                           levels, trend_data)

\* consensus in units of 1 / ConsensusUnit, so that the thirds are exact
ConsensusUnit == 3000

Count(signals, s) == Cardinality({i \in DOMAIN signals : signals[i] = s})

\* lines 255-268: max_count / len(signals), as a number of thirds
_calculate_signal_consensus(ema_signal, rsi_signal, trend_signal) ==
    LET signals == <<ema_signal.signal, rsi_signal.signal, trend_signal.signal>>
        buy_count == Count(signals, "BUY")
        sell_count == Count(signals, "SELL")
        hold_count == Count(signals, "HOLD")
        max_count == Max(buy_count, Max(sell_count, hold_count))
    IN  (max_count * ConsensusUnit) \div Len(signals)

\* the floats of the weights 0.1 .. 0.4 of SIGNAL_WEIGHTS
Tenths == [w \in 1..4 |-> SFromDecimal(w, 10)]

\* the scoring loop with a NEUTRAL component confirming every direction
Weighted_confirming(component, weight, key) ==
    IF component.signal = key \/ component.signal = "NEUTRAL"
    THEN Value(SMul(component.floats.strength, Tenths[weight])) ELSE Missing

\* the scoring loop with a component whose signal is no key of
\* signal_scores counted as HOLD
Weighted_lenient(component, weight, key) ==
    IF component.signal = key
       \/ (key = "HOLD" /\ component.signal \notin {"BUY", "SELL", "HOLD"})
    THEN Value(SMul(component.floats.strength, Tenths[weight])) ELSE Missing

\* lines 226-227: weighted_strength = component['strength'] * weight, which
\* the pass adds to the bucket `key` when the component's signal names it;
\* nothing is added otherwise
Weighted(component, weight, key) ==
    IF component.signal = key
    THEN Value(SMul(component.floats.strength, Tenths[weight])) ELSE Missing

\* signal_scores[key] += weighted_strength
Added(sum, weighted_strength) ==
    IF weighted_strength.nan THEN sum ELSE SAdd(sum, weighted_strength.v)

\* lines 217-222: components, each judgment with its weight
Components(ema_signal, rsi_signal, volume_signal, trend_signal) ==
    <<[component |-> ema_signal, weight |-> WEIGHT_EMA_CROSSOVER],
      [component |-> rsi_signal, weight |-> WEIGHT_RSI_CONFIRMATION],
      [component |-> volume_signal, weight |-> WEIGHT_VOLUME_CONFIRMATION],
      [component |-> trend_signal, weight |-> WEIGHT_TREND_STRENGTH]>>
\* the bucket `key` after the passes i .. of the loop, from the sum before
RECURSIVE ScoreFrom(_, _, _, _)
ScoreFrom(components, key, i, sum) ==
    IF i > Len(components) THEN sum
    ELSE ScoreFrom(components, key, i + 1,
                   Added(sum, Weighted(components[i].component,
                                       components[i].weight, key)))
\* signal_scores = {'BUY': 0, 'SELL': 0, 'HOLD': 0} after the loop
SignalScores(ema_signal, rsi_signal, volume_signal, trend_signal) ==
    [key \in {"BUY", "SELL", "HOLD"} |->
        ScoreFrom(Components(ema_signal, rsi_signal, volume_signal,
                             trend_signal), key, 1, Zero)]

\* max(signal_scores, key=signal_scores.get): the first key, in the order
\* BUY, SELL, HOLD, whose score no later key exceeds
MaxSignal(signal_scores) ==
    IF SLe(signal_scores["SELL"], signal_scores["BUY"])
       /\ SLe(signal_scores["HOLD"], signal_scores["BUY"]) THEN "BUY"
    ELSE IF SLe(signal_scores["HOLD"], signal_scores["SELL"]) THEN "SELL"
    ELSE "HOLD"

\* min_threshold = 1.0
MinThreshold == One

\* the threshold test with a score equal to the threshold held back too
FinalSignal_inclusive(max_signal, max_score) ==
    IF max_signal # "HOLD" /\ SLe(max_score, MinThreshold)
    THEN "HOLD" ELSE max_signal

\* the threshold test answering with the token of the volume judgment
FinalSignal_neutral(max_signal, max_score) ==
    IF max_signal # "HOLD" /\ SLt(max_score, MinThreshold)
    THEN "NEUTRAL" ELSE max_signal

\* lines 234-241: the minimum threshold required of a BUY or SELL winner
FinalSignal(max_signal, max_score) ==
    IF max_signal # "HOLD" /\ SLt(max_score, MinThreshold)
    THEN "HOLD" ELSE max_signal

\* the consensus as the float max_count / len(signals)
ConsensusFloat(signal_consensus) ==
    SDiv(SFromInt(signal_consensus \div (ConsensusUnit \div 3)), SFromInt(3))

\* the confidence without its cap
Confidence_uncapped(signal_strength, signal_consensus) ==
    SMul(signal_strength, signal_consensus)

\* line 245: confidence = min(signal_strength * signal_consensus, 10.0)
Confidence(signal_strength, signal_consensus) ==
    SMin(SMul(signal_strength, signal_consensus), SFromInt(10))

\* lines 230-253: the winner of the scores and the returned dict, its
\* numbers kept in 1/ScoreUnit beside their floats
CompositeOf(signal_scores, max_signal, signal_consensus, confidence) ==
    [signal |-> FinalSignal(max_signal, signal_scores[max_signal]),
     strength |-> Keep(signal_scores[max_signal], ScoreUnit),
     confidence |-> Keep(confidence, ScoreUnit),
     scores |-> [key \in {"BUY", "SELL", "HOLD"} |->
                    Keep(signal_scores[key], ScoreUnit)],
     consensus |-> signal_consensus,
     floats |-> [strength |-> signal_scores[max_signal],
                 confidence |-> confidence,
                 scores |-> signal_scores,
                 consensus |-> ConsensusFloat(signal_consensus)]]
CompositeAt(signal_scores, max_signal, signal_consensus) ==
    CompositeOf(signal_scores, max_signal, signal_consensus,
                Confidence(signal_scores[max_signal],
                           ConsensusFloat(signal_consensus)))
CompositeFrom(signal_scores, signal_consensus) ==
    CompositeAt(signal_scores, MaxSignal(signal_scores), signal_consensus)

_calculate_composite_signal(ema_signal, rsi_signal, volume_signal, trend_signal) ==
    CompositeFrom(SignalScores(ema_signal, rsi_signal, volume_signal,
                               trend_signal),
                  _calculate_signal_consensus(ema_signal, rsi_signal,
                                              trend_signal))

\* the stop of a BUY or SELL taken from the ATR distance alone
StopLoss_unclamped(current_price, atr_stop_distance, support, resistance, signal) ==
    IF signal = "SELL" THEN SAdd(current_price, atr_stop_distance)
    ELSE SSub(current_price, atr_stop_distance)

\* the stops held by the wrong one of max() and min()
StopLoss_farther(current_price, atr_stop_distance, support, resistance, signal) ==
    IF signal = "BUY"
    THEN SMin(SSub(current_price, atr_stop_distance),
              SMul(support, SFromDecimal(99, 100)))
    ELSE IF signal = "SELL"
    THEN SMax(SAdd(current_price, atr_stop_distance),
              SMul(resistance, SFromDecimal(101, 100)))
    ELSE SSub(current_price, atr_stop_distance)

\* lines 280-300: stop_loss, the ATR stop held by max() at 0.99 of the
\* support for a BUY and by min() at 1.01 of the resistance for a SELL
StopLoss(current_price, atr_stop_distance, support, resistance, signal) ==
    IF signal = "BUY"
    THEN SMax(SSub(current_price, atr_stop_distance),
              SMul(support, SFromDecimal(99, 100)))
    ELSE IF signal = "SELL"
    THEN SMin(SAdd(current_price, atr_stop_distance),
              SMul(resistance, SFromDecimal(101, 100)))
    ELSE SSub(current_price, atr_stop_distance)

\* lines 280-300: take_profit
TakeProfit(current_price, atr_stop_distance, signal) ==
    IF signal = "BUY"
    THEN SAdd(current_price,
              SMul(atr_stop_distance, SFromInt(TAKE_PROFIT_RATIO)))
    ELSE IF signal = "SELL"
    THEN SSub(current_price,
              SMul(atr_stop_distance, SFromInt(TAKE_PROFIT_RATIO)))
    ELSE SAdd(current_price, atr_stop_distance)

\* line 304: risk_reward_ratio, and the figures before their rounding
RiskMetrics(stop_loss, take_profit, risk_amount, reward_amount) ==
    [stop_loss |-> stop_loss,
     take_profit |-> take_profit,
     risk_amount |-> risk_amount,
     reward_amount |-> reward_amount,
     risk_reward_ratio |->
         IF SLt(Zero, risk_amount) THEN SDiv(reward_amount, risk_amount)
         ELSE Zero]

\* lines 302-303: risk_amount and reward_amount
RiskAmounts(current_price, stop_loss, take_profit) ==
    RiskMetrics(stop_loss, take_profit,
                SAbs(SSub(current_price, stop_loss)),
                SAbs(SSub(take_profit, current_price)))

\* lines 280-300: the stop and the target at the ATR stop distance
RiskAt(current_price, atr_stop_distance, support, resistance, signal) ==
    RiskAmounts(current_price,
                StopLoss(current_price, atr_stop_distance,
                         support, resistance, signal),
                TakeProfit(current_price, atr_stop_distance, signal))

\* lines 277-304: the arithmetic of _calculate_risk_levels before the
\* rounding of the returned record
RiskRaw(current_price, atr, support, resistance, signal) ==
    RiskAt(current_price, SMul(atr, SFromInt(STOP_LOSS_ATR_MULTIPLIER)),
           support, resistance, signal)

\* the returned record of rounded figures kept in 1/PriceUnit beside
\* their floats
RiskKept(floats) ==
    [stop_loss |-> Keep(floats.stop_loss, PriceUnit),
     take_profit |-> Keep(floats.take_profit, PriceUnit),
     risk_amount |-> Keep(floats.risk_amount, PriceUnit),
     reward_amount |-> Keep(floats.reward_amount, PriceUnit),
     risk_reward_ratio |-> KeepWithin(floats.risk_reward_ratio, ScoreUnit),
     atr_value |-> Keep(floats.atr_value, PriceUnit),
     floats |-> floats]

\* lines 306-313: each figure rounded to two places
RiskRounded(raw, atr) ==
    RiskKept([stop_loss |-> Round2(raw.stop_loss),
              take_profit |-> Round2(raw.take_profit),
              risk_amount |-> Round2(raw.risk_amount),
              reward_amount |-> Round2(raw.reward_amount),
              risk_reward_ratio |-> Round2(raw.risk_reward_ratio),
              atr_value |-> Round2(atr)])

\* the record of an ATR that is NaN: every figure made of it is NaN, and
\* the ratio, whose test risk_amount > 0 fails, is 0
RiskUndefined ==
    [stop_loss |-> NaN, take_profit |-> NaN, risk_amount |-> NaN,
     reward_amount |-> NaN, risk_reward_ratio |-> 0, atr_value |-> NaN,
     floats |-> [stop_loss |-> Zero, take_profit |-> Zero,
                 risk_amount |-> Zero, reward_amount |-> Zero,
                 risk_reward_ratio |-> Zero, atr_value |-> Zero]]

\* _calculate_risk_levels of the floats of a price, an ATR and two levels
RiskLevels(current_price, atr, support, resistance, signal) ==
    IF atr.nan THEN RiskUndefined
    ELSE RiskRounded(RiskRaw(current_price, atr.v, support, resistance,
                             signal),
                     atr.v)

\* lines 270-313
_calculate_risk_levels(df, indicator_data, composite_signal) ==
    RiskLevels(indicator_data.floats.current_price,
               ValueAt(indicator_data.atr, Size(indicator_data.atr.values)),
               indicator_data.support_resistance.floats.support,
               indicator_data.support_resistance.floats.resistance,
               composite_signal.signal)

\* lines 315-324
_get_market_context(indicator_data) ==
    [trend_direction |-> indicator_data.trend_analysis.direction,
     trend_strength |-> indicator_data.trend_analysis.strength,
     rsi_condition |-> indicator_data.rsi_analysis.condition,
     volume_status |-> IF indicator_data.volume_profile.is_high_volume
                       THEN "HIGH" ELSE "NORMAL",
     support_level |-> indicator_data.support_resistance.support,
     resistance_level |-> indicator_data.support_resistance.resistance]

\* f"{confidence:.1f}", in 1/ScoreUnit
FmtScore(confidence) == Format(confidence, ScoreUnit, 10)

\* the two confidence tiers
StrongTier == 7 * ScoreUnit
ModerateTier == 5 * ScoreUnit
AtTier(confidence, tier) == SLe(SFromDecimal(tier, ScoreUnit), confidence)
OverTier(confidence, tier) == SLt(SFromDecimal(tier, ScoreUnit), confidence)

\* _generate_recommendation with the tiers entered only above 7.0 and 5.0
_generate_recommendation_exclusive(composite_signal, risk_levels) ==
    LET signal == composite_signal.signal
        confidence == composite_signal.floats.confidence
    IN  [text |->
             IF signal = "BUY"
             THEN IF OverTier(confidence, StrongTier)
                  THEN "STRONG BUY - High confidence signal"
                  ELSE IF OverTier(confidence, ModerateTier)
                  THEN "BUY - Moderate confidence signal"
                  ELSE "WEAK BUY - Low confidence signal"
             ELSE IF signal = "SELL"
             THEN IF OverTier(confidence, StrongTier)
                  THEN "STRONG SELL - High confidence signal"
                  ELSE IF OverTier(confidence, ModerateTier)
                  THEN "SELL - Moderate confidence signal"
                  ELSE "WEAK SELL - Low confidence signal"
             ELSE "HOLD - No clear trading opportunity",
         score |-> FmtScore(confidence)]

\* lines 326-349
_generate_recommendation(composite_signal, risk_levels) ==
    LET signal == composite_signal.signal
        confidence == composite_signal.floats.confidence
    IN  [text |->
             IF signal = "BUY"
             THEN IF AtTier(confidence, StrongTier)
                  THEN "STRONG BUY - High confidence signal"
                  ELSE IF AtTier(confidence, ModerateTier)
                  THEN "BUY - Moderate confidence signal"
                  ELSE "WEAK BUY - Low confidence signal"
             ELSE IF signal = "SELL"
             THEN IF AtTier(confidence, StrongTier)
                  THEN "STRONG SELL - High confidence signal"
                  ELSE IF AtTier(confidence, ModerateTier)
                  THEN "SELL - Moderate confidence signal"
                  ELSE "WEAK SELL - Low confidence signal"
             ELSE "HOLD - No clear trading opportunity",
         score |-> FmtScore(confidence)]

\* lines 351-358
_create_error_signal(error_message, clock) ==
    [signal |-> "ERROR",
     error |-> error_message,
     timestamp |-> clock,
     recommendation |-> "Unable to generate signal due to data issues"]

\* lines 45-60: final_signal; `floats` holds the floats of its own numbers
FinalSignalDict(indicator_data, components, composite_signal, risk_levels) ==
    [timestamp |-> indicator_data.timestamp,
     current_price |-> indicator_data.current_price,
     signal |-> composite_signal.signal,
     signal_strength |-> composite_signal.strength,
     confidence |-> composite_signal.confidence,
     components |-> components,
     risk_management |-> risk_levels,
     market_context |-> _get_market_context(indicator_data),
     recommendation |-> _generate_recommendation(composite_signal, risk_levels),
     floats |-> [current_price |-> indicator_data.floats.current_price,
                 signal_strength |-> composite_signal.floats.strength,
                 confidence |-> composite_signal.floats.confidence]]

\* line 42: risk_levels
WithRiskLevels(df, indicator_data, components, composite_signal) ==
    FinalSignalDict(indicator_data, components, composite_signal,
                    _calculate_risk_levels(df, indicator_data,
                                           composite_signal))

\* lines 37-39: composite_signal
WithComposite(df, indicator_data, components) ==
    WithRiskLevels(df, indicator_data, components,
                   _calculate_composite_signal(components.ema, components.rsi,
                                               components.volume,
                                               components.trend))

\* lines 27-34: the empty dict, or else the four judgments
OfIndicators(df, indicator_data, clock) ==
    IF indicator_data.failed
    THEN _create_error_signal("Failed to calculate indicators", clock)
    ELSE WithComposite(df, indicator_data,
                       [ema |-> _analyze_ema_signal(indicator_data),
                        rsi |-> _analyze_rsi_signal(indicator_data),
                        volume |-> _analyze_volume_signal(indicator_data),
                        trend |-> _analyze_trend_signal(indicator_data)])

\* lines 14-62
generate_signal(df, clock) ==
    OfIndicators(df, calculate_all_indicators(df), clock)

-----------------------------------------------------------------------------
(* The market frame and the analysis calls *)

\* Bound of the frames explored: the runs of bars delivered after the
\* initial history
MaxRuns == 2

\* Prices in PriceUnit: the first close, a small and a large step per bar,
\* the margin of a moving bar around its body, the price range
StartPrice == 20 * PriceUnit
SmallStep == PriceUnit \div 2
LargeStep == 60 * PriceUnit
BarMargin == PriceUnit \div 4
MinPrice == PriceUnit
MaxPrice == 100 * PriceUnit
BaseVolume == 9
SpikeVolume == 19

InitLens == {0, 35}
RunLens == {1, 14, 20}
Steps == {-LargeStep, -SmallStep, 0, SmallStep, LargeStep}
Volumes == {BaseVolume, SpikeVolume}
ClockTicks == {0, 1}
ColumnSets == {AllColumns} \cup {AllColumns \ {c} : c \in AllColumns}

LastClose(series) ==
    IF Len(series) = 0 THEN StartPrice ELSE series[Len(series)].close

\* a valid bar: it opens at the previous close, and its high and low bound
\* its body; a bar that does not move has no range
Bar(series, step, volume) ==
    LET open == LastClose(series)
        close == open + step
        margin == IF step = 0 THEN 0 ELSE BarMargin
    IN  [timestamp |-> Len(series) + 1,
         open |-> open,
         high |-> Max(open, close) + margin,
         low |-> Min(open, close) - margin,
         close |-> close,
         volume |-> volume]

RECURSIVE Extend(_, _, _, _)
Extend(series, n, step, volume) ==
    IF n = 0 THEN series
    ELSE Extend(Append(series, Bar(series, step, volume)), n - 1, step, volume)

Frame == [cols |-> cols, bars |-> bars]

\* no indicator under test, no scenario under way
IdleSeries == span = 0 /\ emaOut = None /\ rsiOut = None /\ atrOut = None
IdleScenario == drift = None /\ sawBullish = FALSE /\ sawBuy = FALSE
IdleVolume == volumeIn = None /\ volumeOut = None
IdleSnapshot == snapshot = None /\ analysis = None
IdleFloat == floatIn = None /\ floatOut = None
IdleSession == session = None /\ returned = <<>> /\ feed = None

Init ==
    /\ bars \in {Extend(<<>>, n, 0, BaseVolume) : n \in InitLens}
    /\ cols \in ColumnSets
    /\ now = 0
    /\ result = None
    /\ prev = None
    /\ console = None
    /\ runs = 0
    /\ judgments = None
    /\ composite = None
    /\ advice = None
    /\ riskIn = None
    /\ riskOut = None
    /\ IdleSeries
    /\ IdleScenario
    /\ IdleVolume
    /\ IdleSnapshot
    /\ IdleFloat
    /\ IdleSession

\* The market delivers a run of n further bars to a well-formed frame,
\* before the frame is analysed; a spike of the volume is a single bar.
AppendRun ==
    /\ result = None
    /\ cols = AllColumns
    /\ runs < MaxRuns
    /\ \E n \in RunLens, step \in Steps, volume \in Volumes :
         /\ volume = SpikeVolume => n = 1
         /\ LastClose(bars) + n * step - BarMargin >= MinPrice
         /\ LastClose(bars) + n * step + BarMargin <= MaxPrice
         /\ bars' = Extend(bars, n, step, volume)
    /\ runs' = runs + 1
    /\ UNCHANGED <<cols, now, result, prev, console,
                   judgments, composite, advice, riskIn, riskOut,
                   seriesVars, scenarioVars, volumeVars,
                   snapshotVars, floatVars, sessionVars>>

\* One call of generate_signal on the frame, at most two per frame.  The
\* call reads the wall clock (pd.Timestamp.now()), which by the next call
\* has moved on, or not if the two calls fall into one tick of the clock.
GenerateSignal ==
    /\ prev = None
    /\ result' = generate_signal(Frame, now)
    /\ prev' = result
    /\ \E tick \in ClockTicks : now' = now + tick
    /\ console' = IF IndicatorFault(Frame) # ""
                  THEN [text |-> "Error calculating indicators",
                        cause |-> IndicatorFault(Frame)]
                  ELSE console
    /\ UNCHANGED <<bars, cols, runs,
                   judgments, composite, advice, riskIn, riskOut,
                   seriesVars, scenarioVars, volumeVars,
                   snapshotVars, floatVars, sessionVars>>

Next == AppendRun \/ GenerateSignal

Spec == Init /\ [][Next]_vars

-----------------------------------------------------------------------------
(* The composer applied to factor judgments drawn from bounded sets *)

DirectionalSignals == {"BUY", "SELL", "HOLD"}
TestStrengths == {0, 2500, 10000, 30000}
\* strengths whose weighted sums are not the doubles of their decimals:
\* 3.0 * 0.3 is 0.8999999999999999 and 1.5 * 0.4 is 0.6000000000000001
FloatStrengths == {250, 1500, 2000, 2750, 3000}
TestVolumeStrengths == {-1000, 0, 3000}

\* a judgment of a strength given in 1/Milli, the float being the one the
\* decimal is written for
Judgment(signal, strength) ==
    [signal |-> signal, strength |-> strength,
     floats |-> [strength |-> SFromDecimal(strength, Milli)]]

JudgmentsOf(strengths, volumes) ==
    [ema : {Judgment(d, x) : d \in DirectionalSignals, x \in strengths},
     rsi : {Judgment(d, x) : d \in DirectionalSignals, x \in strengths},
     volume : volumes,
     trend : {Judgment(d, x) : d \in DirectionalSignals, x \in strengths}]
JudgmentInputs ==
    JudgmentsOf(TestStrengths,
                {Judgment("NEUTRAL", x) : x \in TestVolumeStrengths}
                    \cup {Judgment(d, 3 * Milli) : d \in DirectionalSignals})
        \cup JudgmentsOf(FloatStrengths, {Judgment("NEUTRAL", 3 * Milli)})

InitComposite ==
    /\ bars = <<>>
    /\ cols = AllColumns
    /\ now = 0
    /\ result = None
    /\ prev = None
    /\ console = None
    /\ runs = 0
    /\ judgments \in JudgmentInputs
    /\ composite = None
    /\ advice = None
    /\ riskIn = None
    /\ riskOut = None
    /\ IdleSeries
    /\ IdleScenario
    /\ IdleVolume
    /\ IdleSnapshot
    /\ IdleFloat
    /\ IdleSession

CalculateCompositeSignal ==
    /\ composite = None
    /\ composite' = _calculate_composite_signal(judgments.ema, judgments.rsi,
                                                judgments.volume, judgments.trend)
    /\ UNCHANGED <<bars, cols, now, result, prev, console, runs,
                   judgments, advice, riskIn, riskOut,
                   seriesVars, scenarioVars, volumeVars,
                   snapshotVars, floatVars, sessionVars>>

GenerateRecommendation ==
    /\ composite # None
    /\ advice = None
    /\ advice' = _generate_recommendation(composite, None)
    /\ UNCHANGED <<bars, cols, now, result, prev, console, runs,
                   judgments, composite, riskIn, riskOut,
                   seriesVars, scenarioVars, volumeVars,
                   snapshotVars, floatVars, sessionVars>>

NextComposite == CalculateCompositeSignal \/ GenerateRecommendation

SpecComposite == InitComposite /\ [][NextComposite]_vars

-----------------------------------------------------------------------------
(* _calculate_risk_levels applied to snapshots drawn from bounded sets *)

TestPrices == {20 * PriceUnit, 80 * PriceUnit + 37}
TestAtrs == {NaN, 0, 20, 350, 2500, 42857}
TestGaps == {0, 1000, 10 * PriceUnit}
\* the part of the indicator dict _calculate_risk_levels reads, of a
\* price, an ATR and two levels given in 1/PriceUnit
RiskInput(current_price, atr, support, resistance, signal) ==
    [current_price |-> current_price,
     atr |-> Literal(<<atr>>, PriceUnit),
     support_resistance |->
         [support |-> support, resistance |-> resistance,
          floats |-> [support |-> SFromDecimal(support, PriceUnit),
                      resistance |-> SFromDecimal(resistance, PriceUnit)]],
     signal |-> signal,
     floats |-> [current_price |-> SFromDecimal(current_price, PriceUnit)]]
\* A price that is, as a decimal, 0.99 of the support or 1.01 of the
\* resistance beside it: the double of the product is below the price, the
\* price itself, or above it
ClampedLevels ==
    {[price |-> 99198, level |-> 100200, signal |-> "BUY"],
     [price |-> 99000, level |-> 100000, signal |-> "BUY"],
     [price |-> 101970, level |-> 103000, signal |-> "BUY"],
     [price |-> 105545, level |-> 104500, signal |-> "SELL"],
     [price |-> 101000, level |-> 100000, signal |-> "SELL"],
     [price |-> 101505, level |-> 100500, signal |-> "SELL"]}
ClampedAtrs == {0, 350, 2500}
ClampedInputs ==
    {RiskInput(c.price, a,
               IF c.signal = "BUY" THEN c.level ELSE c.price - PriceUnit,
               IF c.signal = "SELL" THEN c.level ELSE c.price + PriceUnit,
               c.signal) : c \in ClampedLevels, a \in ClampedAtrs}
RiskInputs ==
    {RiskInput(p, a, p - lo, p + hi, d) :
        p \in TestPrices, a \in TestAtrs, lo \in TestGaps, hi \in TestGaps,
        d \in DirectionalSignals} \cup ClampedInputs

InitRisk ==
    /\ bars = <<>>
    /\ cols = AllColumns
    /\ now = 0
    /\ result = None
    /\ prev = None
    /\ console = None
    /\ runs = 0
    /\ judgments = None
    /\ composite = None
    /\ advice = None
    /\ riskIn \in RiskInputs
    /\ riskOut = None
    /\ IdleSeries
    /\ IdleScenario
    /\ IdleVolume
    /\ IdleSnapshot
    /\ IdleFloat
    /\ IdleSession

CalculateRiskLevels ==
    /\ riskOut = None
    /\ IdleSeries
    /\ IdleScenario
    /\ IdleVolume
    /\ IdleSnapshot
    /\ IdleFloat
    /\ IdleSession
    /\ riskOut' = _calculate_risk_levels(Frame, riskIn, [signal |-> riskIn.signal])
    /\ UNCHANGED <<bars, cols, now, result, prev, console, runs,
                   judgments, composite, advice, riskIn,
                   seriesVars, scenarioVars, volumeVars,
                   snapshotVars, floatVars, sessionVars>>

NextRisk == CalculateRiskLevels

SpecRisk == InitRisk /\ [][NextRisk]_vars


-----------------------------------------------------------------------------
(* The indicators applied to frames drawn from bounded sets *)

\* Bound of the frames the indicators are applied to: the longest series
MaxSeriesLen == 16

SeriesLens == {1, 2, 5, 9, MaxSeriesLen}
TestSpans == {1, 2, 3, RSI_PERIOD}

\* a bar's move: the gap of its open from the previous close, and the step
\* of its close from its open
Move(gap, step) == [gap |-> gap, step |-> step]
Moves == {Move(0, -PriceUnit), Move(0, 0), Move(0, SmallStep),
          Move(3 * SmallStep, SmallStep), Move(-SmallStep, -SmallStep)}
\* moves of a whole number of cents, whose closes and differences are no
\* doubles of binary fractions
CentMoves == {Move(0, 13 * (PriceUnit \div 100)), Move(0, 0),
              Move(0, -7 * (PriceUnit \div 100))}
MovePatterns == [1..3 -> Moves] \cup [1..3 -> CentMoves]

GapBar(series, move, volume) ==
    LET open == LastClose(series) + move.gap
        close == open + move.step
        margin == IF move.step = 0 THEN 0 ELSE BarMargin
    IN  [timestamp |-> Len(series) + 1,
         open |-> open,
         high |-> Max(open, close) + margin,
         low |-> Min(open, close) - margin,
         close |-> close,
         volume |-> volume]

\* n further bars, their moves taken from the pattern in turn
RECURSIVE ExtendBy(_, _, _)
ExtendBy(series, n, pattern) ==
    IF n = 0 THEN series
    ELSE ExtendBy(Append(series,
                         GapBar(series, pattern[(Len(series) % 3) + 1],
                                BaseVolume)),
                  n - 1, pattern)

SeriesOf(values) == [values |-> values]

InitSeries ==
    /\ bars \in {ExtendBy(<<>>, n, pattern) :
                    n \in SeriesLens, pattern \in MovePatterns}
    /\ cols = AllColumns
    /\ now = 0
    /\ result = None
    /\ prev = None
    /\ console = None
    /\ runs = 0
    /\ judgments = None
    /\ composite = None
    /\ advice = None
    /\ riskIn = None
    /\ riskOut = None
    /\ span \in TestSpans
    /\ emaOut = None
    /\ rsiOut = None
    /\ atrOut = None
    /\ IdleScenario
    /\ IdleVolume
    /\ IdleSnapshot
    /\ IdleFloat
    /\ IdleSession

CalculateEma ==
    /\ emaOut = None
    /\ emaOut' = calculate_ema(Column(Frame, "close"), span)
    /\ UNCHANGED <<bars, cols, now, result, prev, console, runs,
                   judgments, composite, advice, riskIn, riskOut,
                   span, rsiOut, atrOut, scenarioVars, volumeVars,
                   snapshotVars, floatVars, sessionVars>>

CalculateRsi ==
    /\ rsiOut = None
    /\ rsiOut' = calculate_rsi(Column(Frame, "close"), span)
    /\ UNCHANGED <<bars, cols, now, result, prev, console, runs,
                   judgments, composite, advice, riskIn, riskOut,
                   span, emaOut, atrOut, scenarioVars, volumeVars,
                   snapshotVars, floatVars, sessionVars>>

CalculateAtr ==
    /\ atrOut = None
    /\ atrOut' = calculate_atr(Column(Frame, "high"), Column(Frame, "low"),
                               Column(Frame, "close"), span)
    /\ UNCHANGED <<bars, cols, now, result, prev, console, runs,
                   judgments, composite, advice, riskIn, riskOut,
                   span, emaOut, rsiOut, scenarioVars, volumeVars,
                   snapshotVars, floatVars, sessionVars>>

NextSeries == CalculateEma \/ CalculateRsi \/ CalculateAtr

SpecSeries == InitSeries /\ [][NextSeries]_vars

-----------------------------------------------------------------------------
(* generate_signal called as the bars of a monotone series arrive: the 100
   points of a rising series, the 20 points of a falling one *)

\* Bound of the scenarios: the points of a series
ScenarioLen == 100
\* the points of a falling series
FallingLen == 20

\* a scenario: the first close, the step from close to close, and what is
\* added to the size of every other step; closes rise or fall strictly
Drift(start, step, wobble) == [start |-> start, step |-> step, wobble |-> wobble]
ScenarioDrifts ==
    {Drift(start, step, wobble) :
        start \in {StartPrice, 50 * PriceUnit},
        step \in {-SmallStep, -(PriceUnit \div 100), PriceUnit \div 100,
                  SmallStep, 3 * PriceUnit},
        wobble \in {0, PriceUnit \div 50}}

\* the step of the bar that arrives after `series`
ScenarioStep(series, d) ==
    LET extra == (Len(series) % 2) * d.wobble
    IN  IF d.step > 0 THEN d.step + extra ELSE d.step - extra

ScenarioBar(series, d) ==
    IF Len(series) = 0
    THEN [timestamp |-> 1, open |-> d.start, high |-> d.start + BarMargin,
          low |-> d.start - BarMargin, close |-> d.start, volume |-> BaseVolume]
    ELSE Bar(series, ScenarioStep(series, d), BaseVolume)

InitScenario ==
    /\ bars = <<>>
    /\ cols = AllColumns
    /\ now = 0
    /\ result = None
    /\ prev = None
    /\ console = None
    /\ runs = 0
    /\ judgments = None
    /\ composite = None
    /\ advice = None
    /\ riskIn = None
    /\ riskOut = None
    /\ IdleSeries
    /\ drift \in ScenarioDrifts
    /\ sawBullish = FALSE
    /\ sawBuy = FALSE
    /\ IdleVolume
    /\ IdleSnapshot
    /\ IdleFloat
    /\ IdleSession

\* The next bar arrives and the series so far is analysed.  The frame is
\* well formed, so nothing is printed; the calls fall into one tick of the
\* clock.
ArriveAndAnalyse ==
    /\ drift # None
    /\ Len(bars) < (IF drift.step > 0 THEN ScenarioLen ELSE FallingLen)
    /\ ScenarioBar(bars, drift).low >= MinPrice
    /\ bars' = Append(bars, ScenarioBar(bars, drift))
    /\ result' = generate_signal([cols |-> cols, bars |-> bars'], now)
    /\ sawBullish' = (sawBullish
                      \/ result'.components.ema.crossover_type = "BULLISH")
    /\ sawBuy' = (sawBuy \/ result'.signal = "BUY")
    /\ UNCHANGED <<cols, now, prev, console, runs,
                   judgments, composite, advice, riskIn, riskOut,
                   seriesVars, drift, volumeVars,
                   snapshotVars, floatVars, sessionVars>>

NextScenario == ArriveAndAnalyse

SpecScenario == InitScenario /\ [][NextScenario]_vars

-----------------------------------------------------------------------------
(* The volume judgment of volume series drawn from bounded sets *)

TestVolumes == {0, 4, BaseVolume, SpikeVolume, 40}
EarlierBars == {0, 5, VOLUME_PERIOD - 1, VOLUME_PERIOD, 30}

\* n bars of one volume, then the current bar
VolumeSeries(n, earlier, current) ==
    [i \in 1..(n + 1) |-> IF i <= n THEN earlier ELSE current]

InitVolume ==
    /\ bars = <<>>
    /\ cols = AllColumns
    /\ now = 0
    /\ result = None
    /\ prev = None
    /\ console = None
    /\ runs = 0
    /\ judgments = None
    /\ composite = None
    /\ advice = None
    /\ riskIn = None
    /\ riskOut = None
    /\ IdleSeries
    /\ IdleScenario
    /\ volumeIn \in {SeriesOf(VolumeSeries(n, earlier, current)) :
                        n \in EarlierBars, earlier \in TestVolumes,
                        current \in TestVolumes}
    /\ volumeOut = None
    /\ IdleSnapshot
    /\ IdleFloat
    /\ IdleSession

AnalyzeVolumeSignal ==
    /\ volumeIn # None
    /\ volumeOut = None
    /\ volumeOut' = _analyze_volume_signal(
           [volume_profile |->
                calculate_volume_profile(volumeIn.values, VOLUME_PERIOD)])
    /\ UNCHANGED <<bars, cols, now, result, prev, console, runs,
                   judgments, composite, advice, riskIn, riskOut,
                   seriesVars, scenarioVars, volumeIn,
                   snapshotVars, floatVars, sessionVars>>

NextVolume == AnalyzeVolumeSignal

SpecVolume == InitVolume /\ [][NextVolume]_vars

-----------------------------------------------------------------------------
(* The four analyzers, the composer and the recommendation applied to
   indicator snapshots drawn from bounded sets *)

\* the last values of the short EMA, around a long EMA of 100.00: 6 %, 1 %
\* below it, on it, and 1 %, 4 %, 6 %, 12 % above it
EmaLevels ==
    {94 * PriceUnit, 99 * PriceUnit, 100 * PriceUnit, 101 * PriceUnit,
     104 * PriceUnit, 106 * PriceUnit, 112 * PriceUnit}
EmaShorts ==
    {<<previous, current>> : previous \in EmaLevels, current \in EmaLevels}
        \cup {<<current>> : current \in EmaLevels}
EmaLongs == {<<100 * PriceUnit, 100 * PriceUnit>>, <<100 * PriceUnit>>}

\* the last values of the RSI series
RsiLevels ==
    {NaN, 0, 30 * Milli, 40 * Milli, 45 * Milli, 55 * Milli, 60 * Milli,
     70 * Milli, 100 * Milli}
RsiBefore == {NaN, 30 * Milli, 45 * Milli, 50 * Milli, 70 * Milli}
RsiTails ==
    {<<previous, current>> : previous \in RsiBefore, current \in RsiLevels}
        \cup {<<current>> : current \in RsiLevels}

\* the highest high and the lowest low of the trailing window and the last
\* close: a flat window, the close at the low and at the high of a 2 %
\* range, and the close inside a 10 % range
Window(high, low, close) == [high |-> high, low |-> low, close |-> close]
Windows ==
    {Window(100 * PriceUnit, 100 * PriceUnit, 100 * PriceUnit),
     Window(102 * PriceUnit, 100 * PriceUnit, 100 * PriceUnit),
     Window(102 * PriceUnit, 100 * PriceUnit, 102 * PriceUnit),
     Window(110 * PriceUnit, 100 * PriceUnit, 105 * PriceUnit)}

\* the volume of the current bar after a full window of BaseVolume
CurrentVolumes == {0, BaseVolume, 40}

\* what calculate_all_indicators makes of the drawn series by the functions
\* it calls: of the two EMA series, of the RSI series, of the window and of
\* the volumes
EmaAnalysis(ema_short, ema_long) ==
    [ema_short |-> ema_short,
     ema_long |-> ema_long,
     trend_analysis |->
         calculate_trend_strength(Literal(ema_short, PriceUnit),
                                  Literal(ema_long, PriceUnit)),
     crossover_analysis |->
         detect_ema_crossover(Literal(ema_short, PriceUnit),
                              Literal(ema_long, PriceUnit))]
EmaAnalyses ==
    {EmaAnalysis(pair[1], pair[2]) :
        pair \in {p \in EmaShorts \X EmaLongs : Len(p[1]) = Len(p[2])}}
\* pairs at the thresholds: a short EMA 4 % off a long one of 20.00, where
\* the separation in doubles is 4.0000000000000036, with and without a
\* crossover; a short EMA crossing to 2.75 % under a long one of 100.00;
\* and one crossing to 12 % over it
ThresholdEmas ==
    {EmaAnalysis(<<208000>>, <<200000>>),
     EmaAnalysis(<<192000>>, <<200000>>),
     EmaAnalysis(<<208000, 208000>>, <<200000, 200000>>),
     EmaAnalysis(<<192000, 192000>>, <<200000, 200000>>),
     EmaAnalysis(<<200000, 208000>>, <<200000, 200000>>),
     EmaAnalysis(<<200000, 192000>>, <<200000, 200000>>),
     EmaAnalysis(<<100 * PriceUnit, 972500>>,
                 <<100 * PriceUnit, 100 * PriceUnit>>),
     EmaAnalysis(<<100 * PriceUnit, 112 * PriceUnit>>,
                 <<100 * PriceUnit, 100 * PriceUnit>>)}
RsiAnalysis(rsi) ==
    [rsi |-> rsi, rsi_analysis |-> analyze_rsi_conditions(Literal(rsi, Milli))]
RsiAnalyses == {RsiAnalysis(rsi) : rsi \in RsiTails}
ThresholdRsis ==
    {RsiAnalysis(<<current>>) : current \in RsiLevels}
        \cup {RsiAnalysis(<<NaN, current>>) : current \in RsiLevels}
\* windows whose close is, as a decimal, the very bound of a test: 0.99 of
\* the resistance (the double of the product is the close, or above it) or
\* 1.01 of the support (the double of the product is the close, or below
\* it)
BoundWindows ==
    {Window(200000, 196000, 198000), Window(201400, 195400, 201300),
     Window(242000, 235800, 240900), Window(202200, 199100, 202000),
     Window(202000, 199000, 202000)}
WindowLevel(window) ==
    [window |-> window,
     support_resistance |->
         calculate_support_resistance(<<window.high>>, <<window.low>>,
                                      <<window.close>>, SR_LOOKBACK),
     floats |-> [current_price |-> SFromDecimal(window.close, PriceUnit)]]
WindowLevels == {WindowLevel(window) : window \in Windows}
ThresholdLevels == {WindowLevel(window) : window \in Windows \cup BoundWindows}
VolumeProfiles ==
    {calculate_volume_profile(
         VolumeSeries(VOLUME_PERIOD, BaseVolume, current_volume),
         VOLUME_PERIOD) : current_volume \in CurrentVolumes}

\* the dict calculate_all_indicators hands to the analyzers
Snapshot(emas, index, levels, volume_profile) ==
    [ema_short |-> emas.ema_short,
     ema_long |-> emas.ema_long,
     rsi |-> index.rsi,
     window |-> levels.window,
     current_price |-> levels.window.close,
     support_resistance |-> levels.support_resistance,
     volume_profile |-> volume_profile,
     trend_analysis |-> emas.trend_analysis,
     crossover_analysis |-> emas.crossover_analysis,
     rsi_analysis |-> index.rsi_analysis,
     floats |-> levels.floats]

\* the volume profile of a window of BaseVolume throughout
SteadyVolume ==
    calculate_volume_profile(VolumeSeries(VOLUME_PERIOD, BaseVolume, BaseVolume),
                             VOLUME_PERIOD)

\* the series of one frame have one length
Aligned(emas, index) == Len(emas.ema_short) = Len(index.rsi)

\* a snapshot of the drawn EMAs, RSIs and windows beside a steady
\* volume; one of the parts at the thresholds beside each volume; or one of
\* the parts at the thresholds, the windows at the bounds among them
DrawnSnapshot(s) ==
    \/ \E emas \in EmaAnalyses, index \in RsiAnalyses,
           levels \in WindowLevels :
          Aligned(emas, index) /\ s = Snapshot(emas, index, levels, SteadyVolume)
    \/ \E emas \in ThresholdEmas, index \in ThresholdRsis,
           levels \in WindowLevels, volume_profile \in VolumeProfiles :
          Aligned(emas, index) /\ s = Snapshot(emas, index, levels, volume_profile)
    \/ \E emas \in ThresholdEmas, index \in ThresholdRsis,
           levels \in ThresholdLevels :
          Aligned(emas, index) /\ s = Snapshot(emas, index, levels, SteadyVolume)

\* lines 31-39 and 59 of generate_signal: the judgments of the four
\* analyzers, the composite made of them and its recommendation
Advised(components, composite_signal) ==
    [ema |-> components.ema,
     rsi |-> components.rsi,
     volume |-> components.volume,
     trend |-> components.trend,
     composite |-> composite_signal,
     recommendation |-> _generate_recommendation(composite_signal, None)]
Composed(components) ==
    Advised(components,
            _calculate_composite_signal(components.ema, components.rsi,
                                        components.volume, components.trend))
Analyse(indicator_data) ==
    Composed([ema |-> _analyze_ema_signal(indicator_data),
              rsi |-> _analyze_rsi_signal(indicator_data),
              volume |-> _analyze_volume_signal(indicator_data),
              trend |-> _analyze_trend_signal(indicator_data)])

InitSnapshot ==
    /\ bars = <<>>
    /\ cols = AllColumns
    /\ now = 0
    /\ result = None
    /\ prev = None
    /\ console = None
    /\ runs = 0
    /\ judgments = None
    /\ composite = None
    /\ advice = None
    /\ riskIn = None
    /\ riskOut = None
    /\ IdleSeries
    /\ IdleScenario
    /\ IdleVolume
    /\ DrawnSnapshot(snapshot)
    /\ analysis = None
    /\ IdleFloat
    /\ IdleSession

AnalyseSnapshot ==
    /\ snapshot # None
    /\ analysis = None
    /\ analysis' = Analyse(snapshot)
    /\ UNCHANGED <<bars, cols, now, result, prev, console, runs,
                   judgments, composite, advice, riskIn, riskOut,
                   seriesVars, scenarioVars, volumeVars,
                   snapshot, floatVars, sessionVars>>

NextSnapshot == AnalyseSnapshot

SpecSnapshot == InitSnapshot /\ [][NextSnapshot]_vars

-----------------------------------------------------------------------------
(* calculate_support_resistance and _calculate_risk_levels applied, in the
   floats the code computes with, to prices given in cents and an ATR given
   in thousandths *)

\* the bars of a lookback window, each with low <= close <= high: flat
\* windows, windows a cent high, and windows wide enough to leave the ATR
\* stop alone
CentBar(high, low, close) == [high |-> high, low |-> low, close |-> close]
CentWindows ==
    {<<CentBar(73830, 73830, 73830)>>, <<CentBar(135, 135, 135)>>,
     <<CentBar(10000, 10000, 10000)>>, <<CentBar(252295, 252295, 252295)>>,
     <<CentBar(258295, 246295, 250000), CentBar(253000, 251000, 252295)>>,
     <<CentBar(150819, 138819, 144000), CentBar(145000, 144000, 144819)>>,
     <<CentBar(73831, 73830, 73830)>>, <<CentBar(135, 134, 135)>>}
MilliAtrs == {0, 500, 9561, 22082}
FloatInputs ==
    {[window |-> w, atr |-> a, signal |-> d] :
        w \in CentWindows, a \in MilliAtrs, d \in DirectionalSignals}

\* a price given in cents and an ATR given in thousandths as floats
Price(cents) == SFromDecimal(cents, 100)
Atr(thousandths) == SFromDecimal(thousandths, 1000)
\* a column of the window, in 1/PriceUnit
PriceColumn(window, c) ==
    [i \in 1..Len(window) |-> window[i][c] * (PriceUnit \div 100)]

InitFloat ==
    /\ bars = <<>>
    /\ cols = AllColumns
    /\ now = 0
    /\ result = None
    /\ prev = None
    /\ console = None
    /\ runs = 0
    /\ judgments = None
    /\ composite = None
    /\ advice = None
    /\ riskIn = None
    /\ riskOut = None
    /\ IdleSeries
    /\ IdleScenario
    /\ IdleVolume
    /\ IdleSnapshot
    /\ floatIn \in FloatInputs
    /\ floatOut = None
    /\ IdleSession

\* calculate_all_indicators: the levels of the window
CalculateSupportResistance ==
    /\ floatIn # None
    /\ floatOut = None
    /\ floatOut' =
           [support_resistance |->
                calculate_support_resistance(
                    PriceColumn(floatIn.window, "high"),
                    PriceColumn(floatIn.window, "low"),
                    PriceColumn(floatIn.window, "close"), SR_LOOKBACK).floats,
            current_price |-> Price(Last(floatIn.window).close),
            atr |-> Atr(floatIn.atr),
            risk |-> None]
    /\ UNCHANGED <<bars, cols, now, result, prev, console, runs,
                   judgments, composite, advice, riskIn, riskOut,
                   seriesVars, scenarioVars, volumeVars,
                   snapshotVars, floatIn, sessionVars>>

\* generate_signal: the risk levels from those levels
CalculateRiskRaw ==
    /\ floatOut # None
    /\ floatOut.risk = None
    /\ floatOut' =
           [floatOut EXCEPT !.risk =
                RiskRaw(floatOut.current_price, floatOut.atr,
                        floatOut.support_resistance.support,
                        floatOut.support_resistance.resistance,
                        floatIn.signal)]
    /\ UNCHANGED <<bars, cols, now, result, prev, console, runs,
                   judgments, composite, advice, riskIn, riskOut,
                   seriesVars, scenarioVars, volumeVars,
                   snapshotVars, floatIn, sessionVars>>

NextFloat == CalculateSupportResistance \/ CalculateRiskRaw

SpecFloat == InitFloat /\ [][NextFloat]_vars

-----------------------------------------------------------------------------
(* trading_bot.py: GoldTradingBot.run_single_analysis, called again and
   again on one bot *)

MaxCalls == 2

\* the keys of Config.TIMEFRAME_MAPPING, and a timeframe that is none
Timeframes == {"1d", "2d", "5d"}
RequestedTimeframes == {"1d", "5d", "1w"}

\* what data_fetcher.get_market_data returns.  Every path of it ends in a
\* frame of the five columns under an index of datetimes: the frame of
\* Alpha Vantage, cut to the timeframe and so of any length, or else the
\* demo frame (the Yahoo branch raises at set_index and is caught).
Fetched(columns, series) == [cols |-> columns, bars |-> series]
MinDataPoints == 50
FetchOutcomes ==
    {Fetched(AllColumns, <<>>),
     Fetched(AllColumns, Extend(<<>>, 1, 0, BaseVolume)),
     Fetched(AllColumns,
             Extend(<<>>, MinDataPoints - 1, SmallStep, BaseVolume)),
     Fetched(AllColumns, Extend(<<>>, MinDataPoints, SmallStep, BaseVolume)),
     Fetched(AllColumns, Extend(<<>>, MinDataPoints, 0, BaseVolume)),
     Fetched(AllColumns,
             Extend(<<>>, MinDataPoints + 1, -SmallStep \div 5, SpikeVolume))}

\* data_fetcher.validate_data
validate_data(df) ==
    /\ Len(df.bars) > 0
    /\ AllColumns \subseteq df.cols
    /\ Len(df.bars) >= MinDataPoints

\* the summary record appended to signals_generated
Summary(signal_data) ==
    [timestamp |-> signal_data.timestamp,
     signal |-> signal_data.signal,
     strength |-> signal_data.signal_strength,
     confidence |-> signal_data.confidence]

\* the update forgetting to count the analysis
Updated_uncounted(session_data, signal_data) ==
    [analyses_performed |-> session_data.analyses_performed,
     signals_generated |->
         Append(session_data.signals_generated, Summary(signal_data)),
     last_analysis |-> signal_data]

\* lines 81-88: the session data after one more analysis
Updated(session_data, signal_data) ==
    [analyses_performed |-> session_data.analyses_performed + 1,
     signals_generated |->
         Append(session_data.signals_generated, Summary(signal_data)),
     last_analysis |-> signal_data]

\* lines 76-94: what the call does with the signal it generated; the
\* display reads keys every record has and formats a datetime, and raises
\* nothing
Concluded(session_data, display_results, market_data, signal_data) ==
    IF signal_data.signal = "ERROR"
    THEN [session_data |-> session_data, value |-> None]
    ELSE [session_data |-> Updated(session_data, signal_data),
          value |-> signal_data]

\* run_single_analysis: the session data it leaves and the value it
\* returns.  A timeframe that is no key of TIMEFRAME_MAPPING raises at line
\* 56, which line 96 catches; the fetcher returns a frame, so that the test
\* of line 62 never finds None.
run_single_analysis(session_data, timeframe, display_results, market_data, clock) ==
    IF \/ timeframe \notin Timeframes
       \/ ~validate_data(market_data)
    THEN [session_data |-> session_data, value |-> None]
    ELSE Concluded(session_data, display_results, market_data,
                   generate_signal([cols |-> market_data.cols,
                                    bars |-> market_data.bars], clock))

InitSession ==
    /\ bars = <<>>
    /\ cols = AllColumns
    /\ now = 0
    /\ result = None
    /\ prev = None
    /\ console = None
    /\ runs = 0
    /\ judgments = None
    /\ composite = None
    /\ advice = None
    /\ riskIn = None
    /\ riskOut = None
    /\ IdleSeries
    /\ IdleScenario
    /\ IdleVolume
    /\ IdleSnapshot
    /\ IdleFloat
    /\ session = [analyses_performed |-> 0, signals_generated |-> <<>>,
                  last_analysis |-> None]
    /\ returned = <<>>
    /\ feed = None

\* what a call leaves behind: the session, the value returned, and the
\* request it was made with
Returning(call, timeframe, display_results, market_data) ==
    /\ session' = call.session_data
    /\ returned' = Append(returned, call.value)
    /\ feed' = [timeframe |-> timeframe,
                display_results |-> display_results,
                points |-> Len(market_data.bars)]

\* One call of run_single_analysis; what the fetcher does is the
\* environment's choice.
RunSingleAnalysis ==
    /\ session # None
    /\ Len(returned) < MaxCalls
    /\ \E timeframe \in RequestedTimeframes, display_results \in BOOLEAN,
          market_data \in FetchOutcomes :
         Returning(run_single_analysis(session, timeframe, display_results,
                                       market_data, now),
                   timeframe, display_results, market_data)
    /\ UNCHANGED <<bars, cols, now, result, prev, console, runs,
                   judgments, composite, advice, riskIn, riskOut,
                   seriesVars, scenarioVars, volumeVars,
                   snapshotVars, floatVars>>

NextSession == RunSingleAnalysis

SpecSession == InitSession /\ [][NextSession]_vars

-----------------------------------------------------------------------------
(* Properties of generate_signal, under Spec *)

\* two doubles are one value; 2^k; x within slack of y
Same(x, y) == SCmp(x, y) = 0
PowerOfTwo(k) ==
    Signed(FALSE, [hi |-> HiBase \div 2, lo |-> 0, e |-> k - (MantissaBits - 1)])
Within(x, y, slack) == SLe(SAbs(SSub(x, y)), slack)

\* the records generate_signal returns for a frame it could analyse
Directional(r) == r.signal \in {"BUY", "SELL", "HOLD"}

\* C1: every BUY record has stop_loss < current_price < take_profit, and
\* every SELL record has take_profit < current_price < stop_loss.
C1_DirectionInvariant ==
    /\ result.signal = "BUY" =>
         /\ FLt(result.risk_management.stop_loss, result.current_price)
         /\ FLt(result.current_price, result.risk_management.take_profit)
    /\ result.signal = "SELL" =>
         /\ FLt(result.risk_management.take_profit, result.current_price)
         /\ FLt(result.current_price, result.risk_management.stop_loss)

\* C2: two calls of generate_signal on the same frame return identical
\* records, field for field, ERROR records included.
C2_IdenticalRecords == prev # None => result = prev

\* C3: whenever calculate_all_indicators fails, the record returned is an
\* ERROR record whose error field carries the cause of that failure (the
\* text of the exception, which the code prints).
C3_ErrorCarriesCause ==
    (result # None /\ IndicatorFault(Frame) # "") =>
        /\ result.signal = "ERROR"
        /\ result.error = console.cause

\* C4: a frame that lacks one of the five columns, or is too short for the
\* RSI or the ATR to have a defined last value, yields the ERROR record;
\* no BUY, SELL or HOLD record has an undefined (NaN) current RSI, ATR or
\* risk level.
C4_NoUndefinedRecord ==
    /\ (result # None /\ cols # AllColumns) => result.signal = "ERROR"
    /\ (result # None /\ Len(bars) <= ATR_PERIOD) => result.signal = "ERROR"
    /\ Directional(result) =>
         /\ IsNum(result.components.rsi.current_rsi)
         /\ IsNum(result.risk_management.atr_value)
         /\ IsNum(result.risk_management.stop_loss)
         /\ IsNum(result.risk_management.take_profit)
         /\ IsNum(result.risk_management.risk_amount)
         /\ IsNum(result.risk_management.reward_amount)

\* C6: the direction of every record generate_signal returns is BUY, SELL,
\* HOLD or ERROR; the NEUTRAL of the volume judgment never becomes it.
C6_DirectionDomain ==
    result # None => result.signal \in {"BUY", "SELL", "HOLD", "ERROR"}

\* a BUY or SELL record whose volume judgment is NEUTRAL with a strength
C6_NeutralVolumeInRecord ==
    /\ result.signal \in {"BUY", "SELL"}
    /\ result.components.volume.signal = "NEUTRAL"
    /\ result.components.volume.strength > 0

-----------------------------------------------------------------------------
(* Properties of the composer and of the recommendation, under SpecComposite *)

\* the literal weights of config.py, in tenths
FactorWeights == [ema |-> 4, rsi |-> 3, volume |-> 2, trend |-> 1]

\* what the judgment of factor f adds to the bucket `key`: its strength
\* times the double of its weight where its direction is `key`
Part(sum, f, key) ==
    IF judgments[f].signal = key
    THEN SAdd(sum, SMul(judgments[f].floats.strength,
                        SFromDecimal(FactorWeights[f], 10)))
    ELSE sum
\* the bucket `key`: the four parts added to 0 in the order EMA, RSI,
\* volume, price structure, each sum rounded
BucketSum(key) ==
    Part(Part(Part(Part(Zero, "ema", key), "rsi", key), "volume", key),
         "trend", key)
\* the same sum in decimals, in 1/ScoreUnit
BucketDecimal(key) ==
    LET part(f) == IF judgments[f].signal = key
                   THEN judgments[f].strength * FactorWeights[f] ELSE 0
    IN  part("ema") + part("rsi") + part("volume") + part("trend")

BestScore(scores) == Max(scores["BUY"], Max(scores["SELL"], scores["HOLD"]))
BestFloat(scores) ==
    SMax(scores["BUY"], SMax(scores["SELL"], scores["HOLD"]))

\* C5: for every combination of judgments the consensus lies in [0, 1] and
\* the confidence min(strength x consensus, 10.0) lies in [0, 10].
C5_ConsensusConfidenceRange ==
    composite # None =>
        /\ 0 <= composite.consensus
        /\ composite.consensus <= ConsensusUnit
        /\ 0 <= composite.confidence
        /\ composite.confidence <= 10 * ScoreUnit

\* a composite whose strength x consensus exceeds 10 and is capped
C5_CappedConfidence ==
    /\ composite # None
    /\ composite.strength * composite.consensus > 10 * ScoreUnit * ConsensusUnit
    /\ composite.confidence = 10 * ScoreUnit

\* C7: each bucket BUY, SELL, HOLD holds the sum of strength x weight of
\* the judgments that name it, with weights 0.4, 0.3, 0.2, 0.1 for EMA, RSI,
\* volume and price structure, added in that order in doubles (the number
\* kept of it is the decimal sum or, where the double is not the double of
\* that decimal, the number beside it); a NEUTRAL judgment adds to no
\* bucket; the winning direction is a bucket whose score is the highest of
\* the three doubles.
C7_WeightedBuckets ==
    composite # None =>
        /\ DOMAIN composite.scores = {"BUY", "SELL", "HOLD"}
        /\ \A key \in {"BUY", "SELL", "HOLD"} :
               /\ Same(composite.floats.scores[key], BucketSum(key))
               /\ Abs(composite.scores[key] - BucketDecimal(key)) <= 1
               /\ BucketDecimal(key) = 0 => composite.scores[key] = 0
        /\ Same(composite.floats.strength, BestFloat(composite.floats.scores))
        /\ composite.strength = BestScore(composite.scores)
        /\ composite.signal # "HOLD" =>
               Same(composite.floats.scores[composite.signal],
                    BestFloat(composite.floats.scores))

\* a NEUTRAL volume judgment with a strength, beside a SELL of the EMA and
\* a BUY of the RSI and of the price structure whose sums are one decimal,
\* 2.75 * 0.4 = 3.0 * 0.3 + 2.0 * 0.1 = 1.1: the double of the BUY sum is
\* the lower one, and the winner is SELL
C7_NeutralBesideWeighted ==
    /\ composite # None
    /\ judgments.volume.signal = "NEUTRAL"
    /\ judgments.volume.strength > 0
    /\ judgments.ema.signal = "SELL"
    /\ judgments.rsi.signal = "BUY"
    /\ judgments.trend.signal = "BUY"
    /\ BucketDecimal("BUY") = BucketDecimal("SELL")
    /\ BucketDecimal("BUY") = 11 * Milli
    /\ SLt(composite.floats.scores["BUY"], composite.floats.scores["SELL"])
    /\ composite.signal = "SELL"

\* the bucket max() returns: the first of BUY, SELL, HOLD that holds the
\* highest score
Winner(scores) ==
    IF SLe(BestFloat(scores), scores["BUY"]) THEN "BUY"
    ELSE IF SLe(BestFloat(scores), scores["SELL"]) THEN "SELL"
    ELSE "HOLD"

\* C8: a BUY or SELL winner with a score below 1.0 gives the direction HOLD
\* with that score as the strength; a winner with a score of at least 1.0
\* gives its own direction, with its score as the strength.  The score is
\* the double the buckets hold.
C8_ActivationThreshold ==
    composite # None =>
        LET winner == Winner(composite.floats.scores)
            score == composite.floats.scores[winner]
        IN  /\ Same(composite.floats.strength, score)
            /\ composite.strength = composite.scores[winner]
            /\ (winner \in {"BUY", "SELL"} /\ SLt(score, SFromInt(1))) =>
                   composite.signal = "HOLD"
            /\ SLe(SFromInt(1), score) => composite.signal = winner
            /\ winner = "HOLD" => composite.signal = "HOLD"

\* a BUY winner whose sum is 1.0 in decimals, 0.25 * 0.4 + 3.0 * 0.3, and
\* 0.9999999999999999 in doubles: it is held back, above the other buckets
C8_HeldBack ==
    /\ composite # None
    /\ judgments.ema.signal = "BUY"
    /\ judgments.rsi.signal = "BUY"
    /\ BucketDecimal("BUY") = ScoreUnit
    /\ composite.signal = "HOLD"
    /\ Same(composite.floats.scores["BUY"], composite.floats.strength)
    /\ SLt(composite.floats.scores["HOLD"], composite.floats.strength)
    /\ SLt(composite.floats.scores["SELL"], composite.floats.strength)
    /\ SLt(composite.floats.strength, SFromInt(1))

\* C10: for BUY and for SELL the text is the STRONG variant when the
\* confidence is at least 7.0, the plain variant from 5.0 up to 7.0 and the
\* WEAK variant below 5.0; for HOLD it is always the "no clear trading
\* opportunity" text, whatever the confidence.
C10_RecommendationTiers ==
    advice # None =>
        LET c == composite.confidence
            d == composite.signal
        IN  /\ (d = "BUY" /\ c >= 7 * ScoreUnit) =>
                   advice.text = "STRONG BUY - High confidence signal"
            /\ (d = "BUY" /\ 5 * ScoreUnit <= c /\ c < 7 * ScoreUnit) =>
                   advice.text = "BUY - Moderate confidence signal"
            /\ (d = "BUY" /\ c < 5 * ScoreUnit) =>
                   advice.text = "WEAK BUY - Low confidence signal"
            /\ (d = "SELL" /\ c >= 7 * ScoreUnit) =>
                   advice.text = "STRONG SELL - High confidence signal"
            /\ (d = "SELL" /\ 5 * ScoreUnit <= c /\ c < 7 * ScoreUnit) =>
                   advice.text = "SELL - Moderate confidence signal"
            /\ (d = "SELL" /\ c < 5 * ScoreUnit) =>
                   advice.text = "WEAK SELL - Low confidence signal"
            /\ d = "HOLD" =>
                   advice.text = "HOLD - No clear trading opportunity"

\* a confidence of exactly 5.0 advised as the plain variant
C10_PlainAtFive ==
    /\ advice # None
    /\ composite.signal = "SELL"
    /\ composite.confidence = 5 * ScoreUnit
    /\ advice.text = "SELL - Moderate confidence signal"

-----------------------------------------------------------------------------
(* Properties of _calculate_risk_levels, under SpecRisk *)

\* C9: with d = ATR x 2.0, a BUY has stop_loss = max(price - d, support x
\* 0.99) and take_profit = price + d x 2.0; a SELL has stop_loss =
\* min(price + d, resistance x 1.01) and take_profit = price - d x 2.0; a
\* HOLD has stop_loss = price - d and take_profit = price + d; risk_amount
\* = |price - stop_loss|, reward_amount = |take_profit - price|, and
\* risk_reward_ratio = reward_amount / risk_amount, or 0 when risk_amount
\* is 0.  Every operation is one of doubles, and each figure is reported
\* rounded to 2 decimals.
C9_RiskLevelFormulas ==
    (riskOut # None /\ riskIn.atr.values[1] # NaN) =>
        LET price == riskIn.floats.current_price
            d == SMul(riskIn.atr.floats[1], SFromInt(2))
            support99 == SMul(riskIn.support_resistance.floats.support,
                              SFromDecimal(99, 100))
            resistance101 == SMul(riskIn.support_resistance.floats.resistance,
                                  SFromDecimal(101, 100))
            stop == IF riskIn.signal = "BUY"
                    THEN SMax(SSub(price, d), support99)
                    ELSE IF riskIn.signal = "SELL"
                    THEN SMin(SAdd(price, d), resistance101)
                    ELSE SSub(price, d)
            take == IF riskIn.signal = "BUY"
                    THEN SAdd(price, SMul(d, SFromInt(2)))
                    ELSE IF riskIn.signal = "SELL"
                    THEN SSub(price, SMul(d, SFromInt(2)))
                    ELSE SAdd(price, d)
            risk == SAbs(SSub(price, stop))
            reward == SAbs(SSub(take, price))
            ratio == IF SIsZero(risk) THEN Zero ELSE SDiv(reward, risk)
        IN  /\ Same(riskOut.floats.stop_loss, Round2(stop))
            /\ Same(riskOut.floats.take_profit, Round2(take))
            /\ Same(riskOut.floats.risk_amount, Round2(risk))
            /\ Same(riskOut.floats.reward_amount, Round2(reward))
            /\ Same(riskOut.floats.risk_reward_ratio, Round2(ratio))
            /\ SIsZero(risk) => riskOut.risk_reward_ratio = 0

\* a BUY at a price that is 0.99 of the support in decimals, the double of
\* support x 0.99 lying below the price: the stop is held there, the risk
\* is above 0 and rounds to 0.00, and the ratio is too large to be kept
C9_StopHeldAtSupport ==
    /\ riskOut # None
    /\ riskIn.signal = "BUY"
    /\ riskIn.atr.values[1] # NaN
    /\ riskIn.atr.values[1] > 0
    /\ 100 * riskIn.current_price = 99 * riskIn.support_resistance.support
    /\ SLt(SMul(riskIn.support_resistance.floats.support,
                SFromDecimal(99, 100)),
           riskIn.floats.current_price)
    /\ SIsZero(riskOut.floats.risk_amount)
    /\ riskOut.risk_reward_ratio = Large * ScoreUnit

-----------------------------------------------------------------------------
(* Properties of the indicators, under SpecSeries *)

Closes == Column(Frame, "close")
Highs == Column(Frame, "high")
Lows == Column(Frame, "low")

\* C11: every defined value of the series calculate_rsi returns lies in
\* the closed interval [0, 100], as a double and as the number kept of it.
C11_RsiRange ==
    rsiOut # None =>
        \A t \in DOMAIN rsiOut.values :
            rsiOut.values[t] # NaN =>
                /\ SLe(Zero, rsiOut.floats[t])
                /\ SLe(rsiOut.floats[t], SFromInt(100))
                /\ 0 <= rsiOut.values[t]
                /\ rsiOut.values[t] <= 100 * Milli

\* an RSI strictly inside the interval that is no decimal of three places,
\* beside a saturated one
C11_RsiInside ==
    /\ rsiOut # None
    /\ \E t \in DOMAIN rsiOut.values :
           /\ rsiOut.values[t] # NaN
           /\ SLt(Zero, rsiOut.floats[t])
           /\ SLt(rsiOut.floats[t], SFromInt(100))
           /\ ~Same(rsiOut.floats[t], SFromDecimal(rsiOut.values[t], Milli))
    /\ \E t \in DOMAIN rsiOut.values :
           rsiOut.values[t] # NaN /\ Same(rsiOut.floats[t], SFromInt(100))

\* the rolling window ending at position t holds no falling close
NoLossInWindow(t) ==
    \A i \in (t - span + 1)..t : i = 1 \/ Closes[i] >= Closes[i - 1]

\* C12: at every position whose window is full and whose mean loss over the
\* window is 0, calculate_rsi yields 100, flat windows (mean gain also 0)
\* included; the value is never undefined there.
C12_SaturatesOnZeroLoss ==
    rsiOut # None =>
        \A t \in DOMAIN rsiOut.values :
            (t >= span /\ NoLossInWindow(t)) => rsiOut.values[t] = 100 * Milli

\* C13: for bars with high >= low, every defined value of the series
\* calculate_atr returns is >= 0.
C13_AtrNonNegative ==
    atrOut # None =>
        \A t \in DOMAIN atrOut.values :
            atrOut.values[t] # NaN => atrOut.values[t] >= 0

\* a defined, positive ATR for bars that all have high >= low, one of them
\* opening with a gap below the previous close
C13_AtrDefined ==
    /\ atrOut # None
    /\ \A i \in DOMAIN bars : bars[i].high >= bars[i].low
    /\ \E i \in DOMAIN bars : i > 1 /\ bars[i].high < bars[i - 1].close
    /\ \E t \in DOMAIN atrOut.values :
           atrOut.values[t] # NaN /\ atrOut.values[t] > 0

\* the closes as the doubles of the frame, alpha = 2 / (period + 1), and
\* alpha x_t + (1 - alpha) ema_(t-1) of the EMA returned for t - 1
CloseAt(t) == SFromDecimal(Closes[t], PriceUnit)
StatedAlpha == SDiv(SFromInt(2), SFromInt(span + 1))
StatedEma(t) ==
    SAdd(SMul(StatedAlpha, CloseAt(t)),
         SMul(SSub(SFromInt(1), StatedAlpha), emaOut.floats[t - 1]))

\* C14: the first value of calculate_ema equals the first input, each later
\* value is alpha x_t + (1 - alpha) ema_(t-1) with alpha = 2 / (period + 1),
\* every position has a value, and a constant series of value v gives v at
\* every position.  The first value and the values of a constant series
\* are the very doubles of the input; a later value lies within 2^-48 of
\* itself of the stated formula, which the code evaluates by other
\* operations, each rounded.
C14_EmaRecursion ==
    emaOut # None =>
        /\ DOMAIN emaOut.values = DOMAIN bars
        /\ DOMAIN emaOut.floats = DOMAIN bars
        /\ \A t \in DOMAIN bars :
               /\ emaOut.values[t] # NaN
               /\ t = 1 => (/\ Same(emaOut.floats[t], CloseAt(1))
                            /\ emaOut.values[t] = Closes[1])
               /\ t > 1 =>
                      Within(emaOut.floats[t], StatedEma(t),
                             SMul(StatedEma(t), PowerOfTwo(-48)))
        /\ (\A t \in DOMAIN bars : Closes[t] = Closes[1]) =>
               \A t \in DOMAIN bars :
                   /\ Same(emaOut.floats[t], CloseAt(1))
                   /\ emaOut.values[t] = Closes[1]

\* the EMA of a constant series longer than the period, with a period
\* above 1
C14_EmaOfConstant ==
    /\ emaOut # None
    /\ span > 1
    /\ Len(bars) > span
    /\ \A t \in DOMAIN bars : Closes[t] = Closes[1]
    /\ emaOut.values[Len(bars)] = Closes[1]
    /\ Same(emaOut.floats[Len(bars)], CloseAt(1))

\* C19: the series calculate_rsi returns has the length of its input and
\* no numeric value at each of its first `period` positions.
C19_RsiWarmUp ==
    rsiOut # None =>
        /\ DOMAIN rsiOut.values = DOMAIN bars
        /\ \A t \in DOMAIN rsiOut.values : t <= span => rsiOut.values[t] = NaN

\* the true range as stated: at the first position high - low, later the
\* greatest of high - low, |high - previous close|, |low - previous close|
StatedTrueRange(t) ==
    IF t = 1 THEN Highs[1] - Lows[1]
    ELSE Max(Highs[t] - Lows[t],
             Max(Abs(Highs[t] - Closes[t - 1]), Abs(Lows[t] - Closes[t - 1])))

\* the same of the doubles of the frame, each difference rounded
StatedRange(t) ==
    IF t = 1 THEN SSub(SFromDecimal(Highs[1], PriceUnit),
                       SFromDecimal(Lows[1], PriceUnit))
    ELSE SMax(SSub(SFromDecimal(Highs[t], PriceUnit),
                   SFromDecimal(Lows[t], PriceUnit)),
              SMax(SAbs(SSub(SFromDecimal(Highs[t], PriceUnit),
                             SFromDecimal(Closes[t - 1], PriceUnit))),
                   SAbs(SSub(SFromDecimal(Lows[t], PriceUnit),
                             SFromDecimal(Closes[t - 1], PriceUnit)))))
RECURSIVE StatedRangeSum(_, _)
StatedRangeSum(lo, hi) ==
    IF lo > hi THEN Zero ELSE SAdd(StatedRangeSum(lo, hi - 1), StatedRange(hi))

\* x is the mean of the stated true ranges of the `period` positions ending
\* at t: the double lies within 2^-40 of the mean of their doubles (the
\* code keeps a running sum), and `period` times the number kept of it is
\* at most `period` units of 1/PriceUnit off the sum of their decimals
IsStatedTrueRangeMean(x, t) ==
    /\ x.values[t] # NaN
    /\ Within(x.floats[t],
              SDiv(StatedRangeSum(t - span + 1, t), SFromInt(span)),
              PowerOfTwo(-40))
    /\ Abs(span * x.values[t]
           - SeqSum([i \in DOMAIN bars |-> StatedTrueRange(i)],
                    t - span + 1, t)) <= span

\* C20, as stated: the true range of the first bar is high - low, so the
\* ATR is the mean of the true ranges of the trailing `period` positions
\* wherever the series has that many.
C20_AtrMeanFromFirstBar ==
    atrOut # None =>
        \A t \in DOMAIN atrOut.values :
            t >= span => IsStatedTrueRangeMean(atrOut, t)

\* C20, amended: the true range of the first bar is undefined (it has no
\* previous close), so the ATR is undefined at the first `period` positions
\* and is, at every later position, the mean of the true ranges max(high -
\* low, |high - previous close|, |low - previous close|) of the trailing
\* `period` positions.
C20_AtrMeanAfterFirstBar ==
    atrOut # None =>
        /\ DOMAIN atrOut.values = DOMAIN bars
        /\ \A t \in DOMAIN atrOut.values :
               /\ t <= span => atrOut.values[t] = NaN
               /\ t > span => IsStatedTrueRangeMean(atrOut, t)

\* an ATR defined at the position after the first `period`, over a window
\* holding a bar whose range from the previous close exceeds high - low
C20_AtrOverGap ==
    /\ atrOut # None
    /\ Len(bars) > span
    /\ atrOut.values[span] = NaN
    /\ atrOut.values[span + 1] # NaN
    /\ \E i \in 2..(span + 1) :
           StatedTrueRange(i) > Highs[i] - Lows[i]

-----------------------------------------------------------------------------
(* Properties of the scenarios, under SpecScenario *)

\* C15: as the 100 points of a strictly increasing series arrive, there is
\* a point at which detect_ema_crossover reports BULLISH and a point at
\* which the composite direction is BUY.
C15_RisingSeriesBuys ==
    (drift # None /\ drift.step > 0 /\ Len(bars) = ScenarioLen) =>
        (sawBullish /\ sawBuy)

\* C16: for 20 strictly decreasing closes the current RSI is below 30,
\* analyze_rsi_conditions classifies it OVERSOLD and _analyze_rsi_signal
\* returns BUY.
C16_FallingSeriesOversold ==
    (drift # None /\ drift.step < 0 /\ Len(bars) = 20) =>
        /\ result.components.rsi.current_rsi # NaN
        /\ result.components.rsi.current_rsi < RSI_OVERSOLD * Milli
        /\ result.components.rsi.condition = "OVERSOLD"
        /\ result.market_context.rsi_condition = "OVERSOLD"
        /\ result.components.rsi.signal = "BUY"

\* 20 closes falling by unequal steps, analysed
C16_TwentyFalling ==
    /\ drift # None
    /\ drift.step < 0
    /\ drift.wobble > 0
    /\ Len(bars) = 20
    /\ \A i \in 2..20 : bars[i].close < bars[i - 1].close
    /\ result.components.rsi.signal = "BUY"

-----------------------------------------------------------------------------
(* Properties of the volume judgment, under SpecVolume and SpecComposite *)

\* the current volume, and the size and the sum of the trailing window
CurrentVolume == volumeIn.values[Len(volumeIn.values)]
WindowSize == Min(Len(volumeIn.values), 20)
WindowTotal ==
    SeqSum(volumeIn.values, Len(volumeIn.values) - WindowSize + 1,
           Len(volumeIn.values))

\* the ratio of the statement as a double: the current volume by the mean
\* of the window, 1.0 when that mean is 0
StatedRatio ==
    IF WindowTotal = 0 THEN SFromInt(1)
    ELSE SDiv(SFromInt(CurrentVolume),
              SDiv(SFromInt(WindowTotal), SFromInt(WindowSize)))

\* C17: the volume judgment's direction is always NEUTRAL; with ratio =
\* current volume / trailing average volume, and ratio = 1.0 when that
\* average is 0, the high-volume flag is ratio > 1.5 and the strength is
\* min((ratio - 1) x 2, 3.0) when the flag is set, -1.0 when ratio < 0.5
\* and 0 otherwise; a ratio of exactly 2.0 gives the flag and strength 2.0.
\* The ratio and the strength are doubles; the flag is that of the ratio in
\* decimals as well, and the ratio kept is the decimal ratio.
C17_VolumeJudgment ==
    volumeOut # None =>
        LET ratio == IF WindowTotal = 0 THEN Milli
                     ELSE DivScaled(CurrentVolume * WindowSize, WindowTotal, 3)
            high == WindowTotal > 0
                    /\ 2 * CurrentVolume * WindowSize > 3 * WindowTotal
        IN  /\ volumeOut.signal = "NEUTRAL"
            /\ volumeOut.volume_ratio = ratio
            /\ volumeOut.is_high_volume = high
            /\ volumeOut.is_high_volume = SLt(SFromDecimal(15, 10), StatedRatio)
            /\ Same(volumeOut.floats.strength,
                    IF high
                    THEN SMin(SMul(SSub(StatedRatio, SFromInt(1)), SFromInt(2)),
                              SFromInt(3))
                    ELSE IF SLt(StatedRatio, SFromDecimal(5, 10))
                    THEN SFromInt(-1)
                    ELSE Zero)
            /\ high =>
                   Abs(volumeOut.strength
                       - Min((ratio - Milli) * 2, 3 * Milli)) <= 2
            /\ ~high =>
                   volumeOut.strength
                       = (IF ratio < Milli \div 2 THEN -Milli ELSE 0)
            /\ ratio = 2 * Milli =>
                   (volumeOut.is_high_volume /\ volumeOut.strength = 2 * Milli)

\* a current volume of exactly twice the average of the trailing 20 bars
C17_RatioOfTwo ==
    /\ volumeOut # None
    /\ Len(volumeIn.values) >= 20
    /\ WindowTotal > 0
    /\ CurrentVolume * WindowSize = 2 * WindowTotal
    /\ volumeOut.is_high_volume
    /\ volumeOut.strength = 2 * Milli

\* what the composer returns with the strength of the volume judgment
\* replaced
WithVolumeStrength(j, strength) ==
    _calculate_composite_signal(j.ema, j.rsi,
                                Judgment(j.volume.signal, strength), j.trend)

\* C18, as stated: among the inputs the composer is given there are two,
\* identical except for the strength of the NEUTRAL volume judgment, whose
\* confidences differ.
C18_VolumeStrengthMatters ==
    judgments \in JudgmentInputs =>
        \E j \in JudgmentInputs, strength \in TestVolumeStrengths :
            /\ j.volume.signal = "NEUTRAL"
            /\ WithVolumeStrength(j, strength).confidence
                   # WithVolumeStrength(j, j.volume.strength).confidence

\* C18, amended: the strength of the NEUTRAL volume judgment has no effect:
\* two inputs identical except for it give the same composite, confidence
\* and consensus included.
C18_VolumeStrengthIgnored ==
    (composite # None /\ judgments.volume.signal = "NEUTRAL") =>
        \A strength \in TestVolumeStrengths :
            WithVolumeStrength(judgments, strength) = composite

\* a composite with a confidence, made beside a NEUTRAL volume judgment of
\* the strongest kind
C18_StrongVolumeBeside ==
    /\ composite # None
    /\ judgments.volume.signal = "NEUTRAL"
    /\ judgments.volume.strength = 3 * Milli
    /\ composite.confidence > 0
    /\ composite.confidence < 10 * ScoreUnit



-----------------------------------------------------------------------------
(* Properties of the analyzers, under SpecSnapshot *)

\* the values of the two EMA series at the current and the previous index
\* position
ShortNow == snapshot.ema_short[Len(snapshot.ema_short)]
LongNow == snapshot.ema_long[Len(snapshot.ema_long)]
ShortBefore == snapshot.ema_short[Len(snapshot.ema_short) - 1]
LongBefore == snapshot.ema_long[Len(snapshot.ema_long) - 1]

\* the crossover the statement gives for the two series
StatedCrossover ==
    IF Len(snapshot.ema_short) < 2 \/ Len(snapshot.ema_long) < 2 THEN "NONE"
    ELSE IF ShortBefore <= LongBefore /\ ShortNow > LongNow THEN "BULLISH"
    ELSE IF ShortBefore >= LongBefore /\ ShortNow < LongNow THEN "BEARISH"
    ELSE "NONE"
StatedCrossoverStrength ==
    IF StatedCrossover = "NONE" THEN 0
    ELSE Min(SeparationPercent(ShortNow, LongNow), 5 * Milli)

\* the separation of the statement, |short - long| / long * 100 of the
\* doubles of the two EMAs, each operation rounded; the crossover strength
\* min(separation, 5.0), and the trend strength min(separation / 2, 5.0),
\* which is 0 for a NEUTRAL trend
StatedSeparation ==
    SMul(SDiv(SAbs(SSub(SFromDecimal(ShortNow, PriceUnit),
                        SFromDecimal(LongNow, PriceUnit))),
              SFromDecimal(LongNow, PriceUnit)),
         SFromInt(100))
StatedCrossoverDouble ==
    IF StatedCrossover = "NONE" THEN Zero
    ELSE SMin(StatedSeparation, SFromInt(5))
StatedTrendStrength ==
    IF ShortNow = LongNow THEN Zero
    ELSE SMin(SDiv(StatedSeparation, SFromInt(2)), SFromInt(5))
StatedTrendSignal == IF ShortNow > LongNow THEN "BUY" ELSE "SELL"

C22_CrossoverPrecedence ==
    analysis # None =>
        IF StatedCrossover = "BULLISH"
        THEN /\ analysis.ema.signal = "BUY"
             /\ Same(analysis.ema.floats.strength, StatedCrossoverDouble)
        ELSE IF StatedCrossover = "BEARISH"
        THEN /\ analysis.ema.signal = "SELL"
             /\ Same(analysis.ema.floats.strength, StatedCrossoverDouble)
        ELSE IF SLt(SFromInt(2), StatedTrendStrength)
        THEN /\ analysis.ema.signal = StatedTrendSignal
             /\ Same(analysis.ema.floats.strength,
                     SMul(StatedTrendStrength, SFromDecimal(5, 10)))
        ELSE /\ analysis.ema.signal = "HOLD"
             /\ analysis.ema.strength = 0
             /\ SIsZero(analysis.ema.floats.strength)

\* a crossover to 4 % above the long EMA, where the trend strength is 2.0
\* in decimals and above it in doubles: the judgment carries the
\* crossover's strength, not half the trend's
C22_CrossoverOverTrend ==
    /\ analysis # None
    /\ StatedCrossover = "BULLISH"
    /\ 100 * ShortNow = 104 * LongNow
    /\ SLt(SFromInt(2), StatedTrendStrength)
    /\ analysis.ema.signal = "BUY"
    /\ Same(analysis.ema.floats.strength, StatedCrossoverDouble)
    /\ SLt(SMul(StatedTrendStrength, SFromDecimal(5, 10)),
           analysis.ema.floats.strength)

\* the current RSI and the momentum of the statement: current - previous,
\* and 0 with fewer than 2 points
RsiNow == snapshot.rsi[Len(snapshot.rsi)]
StatedMomentum ==
    IF Len(snapshot.rsi) < 2 THEN 0
    ELSE FSub(RsiNow, snapshot.rsi[Len(snapshot.rsi) - 1])

\* C23: the RSI judgment is BUY with (30 - RSI) / 10 when RSI <= 30, SELL
\* with (RSI - 70) / 10 when RSI >= 70, otherwise BUY with
\* min(momentum / 10, 2.0) when momentum > 5 and RSI < 60, SELL with
\* min(|momentum| / 10, 2.0) when momentum < -5 and RSI > 40, and HOLD with
\* strength 0 in every other case; the strength is never negative.
C23_RsiJudgment ==
    analysis # None =>
        /\ analysis.rsi.strength >= 0
        /\ analysis.rsi.momentum = StatedMomentum
        /\ IF FLe(RsiNow, 30 * Milli)
           THEN /\ analysis.rsi.signal = "BUY"
                /\ analysis.rsi.strength = (30 * Milli - RsiNow) \div 10
           ELSE IF FGe(RsiNow, 70 * Milli)
           THEN /\ analysis.rsi.signal = "SELL"
                /\ analysis.rsi.strength = (RsiNow - 70 * Milli) \div 10
           ELSE IF FGt(StatedMomentum, 5 * Milli) /\ FLt(RsiNow, 60 * Milli)
           THEN /\ analysis.rsi.signal = "BUY"
                /\ analysis.rsi.strength = Min(StatedMomentum \div 10, 2 * Milli)
           ELSE IF FLt(StatedMomentum, -5 * Milli) /\ FGt(RsiNow, 40 * Milli)
           THEN /\ analysis.rsi.signal = "SELL"
                /\ analysis.rsi.strength
                       = Min(Abs(StatedMomentum) \div 10, 2 * Milli)
           ELSE /\ analysis.rsi.signal = "HOLD"
                /\ analysis.rsi.strength = 0

\* an RSI that rose by 25 to 55: BUY with the capped strength
C23_MomentumCapped ==
    /\ analysis # None
    /\ RsiNow = 55 * Milli
    /\ StatedMomentum = 25 * Milli
    /\ analysis.rsi.signal = "BUY"
    /\ analysis.rsi.strength = 2 * Milli

\* the two tests of the statement, the product a double
AtSupport ==
    SLe(snapshot.floats.current_price,
        SMul(snapshot.support_resistance.floats.support,
             SFromDecimal(101, 100)))
AtResistance ==
    SLe(SMul(snapshot.support_resistance.floats.resistance,
             SFromDecimal(99, 100)),
        snapshot.floats.current_price)

\* C24: the price-structure judgment is BUY with strength 2.0 when the
\* price is at most support * 1.01, SELL with strength 2.0 when it is at
\* least resistance * 0.99, HOLD with strength 0 otherwise, and BUY when
\* both hold; the trend-strength note changes neither.
C24_PriceStructure ==
    analysis # None =>
        IF AtSupport
        THEN /\ analysis.trend.signal = "BUY"
             /\ analysis.trend.strength = 2 * Milli
             /\ Same(analysis.trend.floats.strength, SFromInt(2))
        ELSE IF AtResistance
        THEN /\ analysis.trend.signal = "SELL"
             /\ analysis.trend.strength = 2 * Milli
             /\ Same(analysis.trend.floats.strength, SFromInt(2))
        ELSE /\ analysis.trend.signal = "HOLD"
             /\ analysis.trend.strength = 0
             /\ SIsZero(analysis.trend.floats.strength)

\* a one-bar window whose close is 1.01 of its support
\* (2 low + 2 close - high) / 3 in decimals and in doubles, and above 0.99
\* of its resistance, with a trend strong enough for the note: BUY
C24_BothAtOnce ==
    /\ analysis # None
    /\ 98 * snapshot.window.close
           = 202 * snapshot.window.low - 101 * snapshot.window.high
    /\ Same(snapshot.floats.current_price,
            SMul(snapshot.support_resistance.floats.support,
                 SFromDecimal(101, 100)))
    /\ AtSupport
    /\ AtResistance
    /\ snapshot.trend_analysis.strength > 3 * Milli
    /\ Len(analysis.trend.reasoning) = 2
    /\ analysis.trend.signal = "BUY"

\* C25: each of the four analyzers returns a non-empty reasons list for
\* every snapshot, the no-signal branches and the snapshots with an
\* undefined RSI or momentum included.
C25_ReasonsGiven ==
    analysis # None =>
        /\ Len(analysis.ema.reasoning) > 0
        /\ Len(analysis.rsi.reasoning) > 0
        /\ Len(analysis.volume.reasoning) > 0
        /\ Len(analysis.trend.reasoning) > 0

\* no analyzer emits a signal, and the RSI is undefined: each still gives
\* its reason
C25_NoSignalAnywhere ==
    /\ analysis # None
    /\ RsiNow = NaN
    /\ analysis.ema.signal = "HOLD"
    /\ analysis.rsi.signal = "HOLD"
    /\ analysis.volume.strength = 0
    /\ analysis.trend.signal = "HOLD"
    /\ Len(analysis.ema.reasoning) = 1
    /\ Len(analysis.rsi.reasoning) = 1
    /\ Len(analysis.volume.reasoning) = 1
    /\ Len(analysis.trend.reasoning) = 1

\* 0.4 * 5.0 + 0.3 * 3.0 + 0.1 * 2.0 = 3.1, in ScoreUnit
StrengthCeiling ==
    WEIGHT_EMA_CROSSOVER * 5 * Milli + WEIGHT_RSI_CONFIRMATION * 3 * Milli
        + WEIGHT_TREND_STRENGTH * 2 * Milli

WeakTexts ==
    {"WEAK BUY - Low confidence signal", "WEAK SELL - Low confidence signal"}

\* C26: the composite strength never exceeds 3.1 and the confidence stays
\* below 5.0, so the STRONG and the plain tier of the recommendation are
\* never entered and every BUY or SELL recommendation is the WEAK one.
C26_OnlyWeakAdvice ==
    analysis # None =>
        /\ analysis.ema.strength <= 5 * Milli
        /\ analysis.rsi.strength <= 3 * Milli
        /\ analysis.trend.strength <= 2 * Milli
        /\ analysis.composite.strength <= StrengthCeiling
        /\ analysis.composite.confidence < ModerateTier
        /\ (analysis.composite.signal \in {"BUY", "SELL"}
                <=> analysis.recommendation.text \in WeakTexts)
        /\ (analysis.composite.signal \notin {"BUY", "SELL"}
                => analysis.recommendation.text
                       = "HOLD - No clear trading opportunity")

\* a BUY composite made of a capped crossover and a price at the support
C26_WeakBuy ==
    /\ analysis # None
    /\ analysis.ema.strength = 5 * Milli
    /\ analysis.rsi.signal = "HOLD"
    /\ analysis.trend.signal = "BUY"
    /\ analysis.composite.signal = "BUY"
    /\ analysis.composite.strength = 22 * Milli
    /\ analysis.recommendation.text = "WEAK BUY - Low confidence signal"

\* C27: every HOLD judgment has strength 0 and the HOLD score is 0; the
\* composite direction is HOLD exactly when the BUY and the SELL score are
\* both below 1.0, BUY when the BUY score is at least 1.0 and at least the
\* SELL score, SELL when the SELL score is at least 1.0 and above the BUY
\* score.  The scores are the doubles the buckets hold.
C27_DirectionFromScores ==
    analysis # None =>
        LET buy == analysis.composite.floats.scores["BUY"]
            sell == analysis.composite.floats.scores["SELL"]
        IN  /\ \A part \in {"ema", "rsi", "trend"} :
                   analysis[part].signal = "HOLD" =>
                       /\ analysis[part].strength = 0
                       /\ SIsZero(analysis[part].floats.strength)
            /\ analysis.composite.scores["HOLD"] = 0
            /\ SIsZero(analysis.composite.floats.scores["HOLD"])
            /\ analysis.composite.signal = "HOLD"
                   <=> (SLt(buy, SFromInt(1)) /\ SLt(sell, SFromInt(1)))
            /\ analysis.composite.signal = "BUY"
                   <=> (SLe(SFromInt(1), buy) /\ SLe(sell, buy))
            /\ analysis.composite.signal = "SELL"
                   <=> (SLe(SFromInt(1), sell) /\ SLt(buy, sell))

\* a SELL of the EMA against a BUY of the RSI and of the price structure
\* whose scores are one decimal, 2.75 * 0.4 = 3.0 * 0.3 + 2.0 * 0.1: the
\* double of the BUY score is at least 1.0 and below that of the SELL
\* score, and the direction is SELL
C27_SellOverBuy ==
    /\ analysis # None
    /\ analysis.ema.signal = "SELL"
    /\ analysis.rsi.signal = "BUY"
    /\ analysis.trend.signal = "BUY"
    /\ WEIGHT_EMA_CROSSOVER * analysis.ema.strength
           = WEIGHT_RSI_CONFIRMATION * analysis.rsi.strength
                 + WEIGHT_TREND_STRENGTH * analysis.trend.strength
    /\ SLe(SFromInt(1), analysis.composite.floats.scores["BUY"])
    /\ SLt(analysis.composite.floats.scores["BUY"],
           analysis.composite.floats.scores["SELL"])
    /\ analysis.composite.signal = "SELL"


-----------------------------------------------------------------------------
(* Properties of the session data, under SpecSession *)

\* the calls so far that returned a signal
SignalsReturned == {i \in DOMAIN returned : returned[i] # None}

\* C30: after any sequence of run_single_analysis calls analyses_performed
\* equals the length of signals_generated and the number of calls that
\* returned a signal, and no ERROR record is in the session log; a call
\* that returns None leaves the session data as they were.
C30_SessionCountsReturns ==
    /\ [](session # None =>
             /\ session.analyses_performed = Len(session.signals_generated)
             /\ session.analyses_performed = Cardinality(SignalsReturned)
             /\ \A i \in DOMAIN session.signals_generated :
                    session.signals_generated[i].signal # "ERROR")
    /\ [][(/\ session # None
           /\ Len(returned') = Len(returned) + 1
           /\ returned'[Len(returned')] = None) => session' = session]_vars

\* two calls, the first returning None and the second, with the display
\* asked for, a signal: one analysis is counted and logged
C30_OneOfTwoReturned ==
    /\ session # None
    /\ Len(returned) = 2
    /\ returned[1] = None
    /\ returned[2] # None
    /\ feed.display_results
    /\ session.analyses_performed = 1
    /\ Len(session.signals_generated) = 1
    /\ session.last_analysis = returned[2]

-----------------------------------------------------------------------------
(* Properties of the levels and the risk figures in floats, under SpecFloat *)

Levels == floatOut.support_resistance
CurrentPrice == floatOut.current_price
FlatWindow == Levels.recent_high = Levels.recent_low

\* the formulas of the three levels, each operation rounded as the code
\* rounds it
StatedPivot ==
    SDiv(SAdd(SAdd(Levels.recent_high, Levels.recent_low), CurrentPrice),
         SFromInt(3))
StatedLevels ==
    /\ Levels.pivot = StatedPivot
    /\ Levels.resistance =
           SSub(SMul(SFromInt(2), StatedPivot), Levels.recent_low)
    /\ Levels.support =
           SSub(SMul(SFromInt(2), StatedPivot), Levels.recent_high)

\* C28 as stated: for bars with low <= close <= high,
\* calculate_support_resistance returns support <= close <= resistance,
\* with pivot = (recentHigh + recentLow + close) / 3, resistance =
\* 2 * pivot - recentLow and support = 2 * pivot - recentHigh.
C28_CloseBetweenLevels ==
    floatOut # None =>
        /\ StatedLevels
        /\ SLe(Levels.support, CurrentPrice)
        /\ SLe(CurrentPrice, Levels.resistance)

\* C28 amended: the three formulas hold; support <= close <= resistance
\* holds when the window's highest high is above its lowest low; on a flat
\* window support and resistance are one value, within close * 2^-50 of the
\* close on either side of it.
C28_CloseBetweenLevelsUnlessFlat ==
    floatOut # None =>
        /\ StatedLevels
        /\ ~FlatWindow =>
               /\ SLe(Levels.support, CurrentPrice)
               /\ SLe(CurrentPrice, Levels.resistance)
        /\ FlatWindow =>
               /\ Levels.support = Levels.resistance
               /\ Within(Levels.support, CurrentPrice,
                         SMul(CurrentPrice, PowerOfTwo(-50)))

\* a flat window whose resistance comes out below the close
C28_ResistanceBelowClose ==
    /\ floatOut # None
    /\ FlatWindow
    /\ SLt(Levels.resistance, CurrentPrice)

Risk == floatOut.risk
Computed == floatOut # None /\ floatOut.risk # None
Distance == SMul(floatOut.atr, SFromInt(STOP_LOSS_ATR_MULTIPLIER))

\* the stop lies between the ATR stop and the current price
StopNoFarther ==
    /\ floatIn.signal = "BUY" =>
           /\ SLe(SSub(CurrentPrice, Distance), Risk.stop_loss)
           /\ SLe(Risk.stop_loss, CurrentPrice)
    /\ floatIn.signal = "SELL" =>
           /\ SLe(CurrentPrice, Risk.stop_loss)
           /\ SLe(Risk.stop_loss, SAdd(CurrentPrice, Distance))

\* C29 as stated: the clamp only moves the stop closer to the price; for
\* BUY and SELL risk_amount <= ATR * 2.0 and, when risk_amount > 0, the
\* unrounded risk_reward_ratio >= 2.0; for HOLD with ATR > 0 the ratio is
\* exactly 1.
C29_RatioAtLeastTwo ==
    Computed =>
        /\ StopNoFarther
        /\ floatIn.signal \in {"BUY", "SELL"} =>
               /\ SLe(Risk.risk_amount, Distance)
               /\ SLt(Zero, Risk.risk_amount) =>
                      SLe(SFromInt(TAKE_PROFIT_RATIO),
                          Risk.risk_reward_ratio)
        /\ floatIn.signal = "HOLD" /\ SLt(Zero, floatOut.atr) =>
               Risk.risk_reward_ratio = SFromInt(1)

\* the rounding left in a ratio of two differences of prices:
\* (1 + price / distance) * 2^-49
RatioSlack ==
    SMul(SAdd(SFromInt(1), SDiv(CurrentPrice, Distance)),
         PowerOfTwo(-49))

\* C29 amended: the clamp only moves the stop closer to the price; for
\* BUY and SELL risk_amount <= ATR * 2.0 + (price + ATR * 2.0) * 2^-52
\* and, when risk_amount > 0, the unrounded ratio >= 2.0 - (1 + price /
\* (ATR * 2.0)) * 2^-49; for HOLD with ATR > 0 the ratio is within that
\* slack of 1.
C29_RatioAtLeastTwoUpToRounding ==
    Computed =>
        /\ StopNoFarther
        /\ floatIn.signal \in {"BUY", "SELL"} =>
               /\ SLe(Risk.risk_amount,
                      SAdd(Distance, SMul(SAdd(CurrentPrice, Distance),
                                          PowerOfTwo(-52))))
               /\ SLt(Zero, Risk.risk_amount) =>
                      /\ SLt(Zero, Distance)
                      /\ SLe(SFromInt(TAKE_PROFIT_RATIO),
                             SAdd(Risk.risk_reward_ratio, RatioSlack))
        /\ floatIn.signal = "HOLD" /\ SLt(Zero, floatOut.atr) =>
               Within(Risk.risk_reward_ratio, SFromInt(1), RatioSlack)

\* a BUY whose stop is the ATR stop and whose ratio comes out below 2.0
C29_RatioBelowTwo ==
    /\ Computed
    /\ floatIn.signal = "BUY"
    /\ Risk.stop_loss = SSub(CurrentPrice, Distance)
    /\ SLt(Zero, Risk.risk_amount)
    /\ SLt(Risk.risk_reward_ratio, SFromInt(TAKE_PROFIT_RATIO))

=============================================================================
